---- MODULE Spec2Model ----
(***************************************************************************)
(* Verification model of the bibliography PDF downloaders.                 *)
(* fetch_pdfs.py: the download orchestrator (App._run_downloads and its    *)
(* manual fallback), the automated attempt (PDFDownloader.download) with   *)
(* its completion detector (_wait_for_new_file), the manual detector       *)
(* (wait_for_manual_pdf), and the way from the text box to the search      *)
(* queries. main.py and bibliography_downloader.py: the DOI-by-DOI loops.  *)
(*                                                                         *)
(* The specifications of the module share its variables; each keeps the    *)
(* variables of the others at their initial values:                        *)
(*   Spec         the orchestrator: one worker thread running the phases,  *)
(*                the UI thread requesting skips and answering prompts;    *)
(*                an attempt is one step whose outcome is any result the   *)
(*                attempt can end with;                                    *)
(*   SpecLive     Spec with weak fairness of the worker thread's steps,    *)
(*                for the properties of progress;                          *)
(*   SpecAgg      the aggregation that follows the phases, on its own;     *)
(*   SpecDet      one attempt taken step by step, automated                *)
(*                (PDFDownloader.download with _wait_for_new_file) or      *)
(*                manual (wait_for_manual_pdf), against a folder whose     *)
(*                files appear, grow, are renamed and vanish while the     *)
(*                detector polls;                                          *)
(*   SpecLeftover SpecDet started on a folder that holds the unfinished    *)
(*                download of an earlier attempt, which is followed;       *)
(*   SpecText     a bibliography text parsed into records, tasks and       *)
(*                search queries;                                          *)
(*   SpecDoi      the loops of main.py (download_pdf per DOI) and of       *)
(*                bibliography_downloader.py (_download_single per URL).   *)
(***************************************************************************)
EXTENDS Integers, Sequences, FiniteSets, TLC

\* ------------------------------------------------------------- bounds
\* Longest bibliography handed to one run.
MaxRefs == 3
\* Aggregations of one set of final results.
MaxAggregations == 2
\* Lines of a bibliography text put together from whole lines.
MaxLines == 2
\* Characters of a bibliography text put together from single characters.
MaxChars == 4
\* DOIs (or URLs) handed to one run of a DOI downloader.
MaxDois == 2
\* Looks wait_for_download takes at the folder before its deadline.
MaxWait == 2

\* ------------------------------------------------------------- values
\* Python's None in a slot that holds an Optional[DownloadResult].
None == [none |-> TRUE]
\* Optional[Path] / Optional[str] that is None.
NoPath == ""
\* Optional[int] duplicate_of that is None (task indices start at 1).
NoDup == 0

\* ---------------------------------------------------------------- text
\* Python strings are TLA+ strings; At(s, i) is s[i - 1], and "" past
\* either end.
At(s, i) == IF i \in 1..Len(s) THEN SubSeq(s, i, i) ELSE ""

CharsOf(s) == { At(s, i) : i \in 1..Len(s) }

\* The characters the patterns tell apart, within ASCII.
UpperCase == "ABCDEFGHIJKLMNOPQRSTUVWXYZ"
LowerCase == "abcdefghijklmnopqrstuvwxyz"
Spaces == {" ", "\t", "\n", "\r"}
DigitChars == CharsOf("0123456789")
UpperLetters == CharsOf(UpperCase)
Letters == CharsOf(UpperCase) \cup CharsOf(LowerCase)
IsSpace(c) == c \in Spaces
IsDigit(c) == c \in DigitChars
IsUpper(c) == c \in UpperLetters
IsLetter(c) == c \in Letters
\* \w
IsWord(c) == IsLetter(c) \/ IsDigit(c) \/ c = "_"

\* A local name: Body with its name bound to the value v, which is computed
\* once however often Body reads the name.
Let(v, Body(_)) == Body(v)

\* The least and the greatest element of a set of indices.
Least(indices) == CHOOSE j \in indices : \A k \in indices : j <= k
Greatest(indices) == CHOOSE j \in indices : \A k \in indices : k <= j

\* Where the longest run of characters satisfying P that starts at i ends:
\* the index of the first character after it.
RunEnd(s, i, P(_)) ==
    LET stops == { j \in i..Len(s) : ~P(At(s, j)) }
    IN IF stops = {} THEN Len(s) + 1 ELSE Least(stops)

\* The text between the first and the last character that Drop rejects.
StripWhere(s, Drop(_)) ==
    LET keep == { j \in 1..Len(s) : ~Drop(At(s, j)) }
    IN IF keep = {} THEN "" ELSE SubSeq(s, Least(keep), Greatest(keep))

\* str.strip()
strip(s) == StripWhere(s, IsSpace)

\* str.strip(chars) / str.rstrip(chars)
StripChars(s, chars) ==
    LET In(c) == c \in CharsOf(chars) IN StripWhere(s, In)

RStripChars(s, chars) ==
    LET keep == { j \in 1..Len(s) : At(s, j) \notin CharsOf(chars) }
    IN IF keep = {} THEN "" ELSE SubSeq(s, 1, Greatest(keep))

\* " ".join(parts) and its like
RECURSIVE Join(_, _)
Join(parts, sep) ==
    IF Len(parts) = 0 THEN ""
    ELSE IF Len(parts) = 1 THEN parts[1]
    ELSE parts[1] \o sep \o Join(Tail(parts), sep)

\* "".join(pieces[lo - 1:hi]) for a function pieces from indices to strings
RECURSIVE Concat(_, _, _)
Concat(pieces, lo, hi) ==
    IF lo > hi THEN ""
    ELSE IF lo = hi THEN pieces[lo]
    ELSE LET mid == (lo + hi) \div 2
         IN Concat(pieces, lo, mid) \o Concat(pieces, mid + 1, hi)

\* str.lower() of one character
LowerOf ==
    [c \in UpperLetters |->
        At(LowerCase, CHOOSE n \in 1..26 : At(UpperCase, n) = c)]

\* str.lower()
lower(s) ==
    Concat([i \in 1..Len(s) |->
              IF IsUpper(At(s, i)) THEN LowerOf[At(s, i)] ELSE At(s, i)],
           1, Len(s))

\* A text with every run of characters satisfying P replaced by with.
ReplaceRuns(s, P(_), with) ==
    Concat([i \in 1..Len(s) |->
              IF ~P(At(s, i)) THEN At(s, i)
              ELSE IF i > 1 /\ P(At(s, i - 1)) THEN "" ELSE with],
           1, Len(s))

\* re.sub(r"\s+", " ", s): every run of whitespace becomes one space.
CollapseSpaces(s) == ReplaceRuns(s, IsSpace, " ")

\* Whether s holds the literal lit at index i.
StartsAt(s, i, lit) ==
    /\ i + Len(lit) - 1 <= Len(s)
    /\ SubSeq(s, i, i + Len(lit) - 1) = lit

\* No match of a pattern.
NoMatch == 0

\* REFERENCE_LEAD_PATTERN.match(s): the index after the match, or NoMatch.
\* ^\s*(?:\[\d+\]|\(\d+\)|\d+[.)])\s*
REFERENCE_LEAD_PATTERN(s) ==
    LET a == RunEnd(s, 1, IsSpace)
        open == At(s, a)
        d == IF open \in {"[", "("} THEN RunEnd(s, a + 1, IsDigit)
             ELSE RunEnd(s, a, IsDigit)
        closed ==
            CASE open = "[" -> d > a + 1 /\ At(s, d) = "]"
              [] open = "(" -> d > a + 1 /\ At(s, d) = ")"
              [] OTHER -> d > a /\ At(s, d) \in {".", ")"}
    IN IF a <= Len(s) /\ closed THEN RunEnd(s, d + 1, IsSpace) ELSE NoMatch

\* LOOSE_REFERENCE_LEAD_PATTERN.match(s): the index after the match, or
\* NoMatch. ^\s*\d+\s+(?=.*[A-Za-z]); the dot stops at "\n".
LOOSE_REFERENCE_LEAD_PATTERN(s) ==
    LET a == RunEnd(s, 1, IsSpace)
        d == RunEnd(s, a, IsDigit)
        e == RunEnd(s, d, IsSpace)
        NotBreak(c) == c # "\n"
        spaces == { f \in (d + 1)..e :
                      \E k \in f..(RunEnd(s, f, NotBreak) - 1) :
                          IsLetter(At(s, k)) }
    IN IF d > a /\ spaces # {}
       THEN Greatest(spaces)
       ELSE NoMatch

\* pattern.sub("", s, count=1) for a pattern anchored at the start.
SubLead(s, match) ==
    IF match = NoMatch THEN s ELSE SubSeq(s, match, Len(s))

\* _strip_reference_lead: both patterns, one after the other.
_strip_reference_lead(text) ==
    Let(strip(SubLead(text, REFERENCE_LEAD_PATTERN(text))), LAMBDA stripped :
        strip(SubLead(stripped, LOOSE_REFERENCE_LEAD_PATTERN(stripped))))

\* str.splitlines(): the lines between line breaks ("\r\n" is one break);
\* a break at the end of the text opens no further line.
RECURSIVE splitlines(_)
splitlines(text) ==
    LET NotBreak(c) == c \notin {"\n", "\r"}
        e == RunEnd(text, 1, NotBreak)
        after == IF StartsAt(text, e, "\r\n") THEN e + 2 ELSE e + 1
    IN IF text = "" THEN <<>>
       ELSE <<SubSeq(text, 1, e - 1)>>
            \o splitlines(SubSeq(text, after, Len(text)))

\* The loop with a numbered line joined to the record that is open.
RECURSIVE ExtractLoop_KeepOpen(_, _, _)
ExtractLoop_KeepOpen(lines, current, refs) ==
    Let(IF Len(current) > 0
        THEN Append(refs, Join(current, " ")) ELSE refs, LAMBDA closed :
    IF Len(lines) = 0 THEN closed
    ELSE Let(strip(lines[1]), LAMBDA stripped :
         IF stripped = ""
         THEN ExtractLoop_KeepOpen(Tail(lines), <<>>, closed)
         ELSE ExtractLoop_KeepOpen(Tail(lines),
                                   Append(current,
                                          _strip_reference_lead(stripped)),
                                   refs)))

\* The loop of extract_references over the lines still to read: current
\* is the accumulator, references the records closed so far.
RECURSIVE ExtractLoop(_, _, _)
ExtractLoop(lines, current, refs) ==
    Let(IF Len(current) > 0
        THEN Append(refs, Join(current, " ")) ELSE refs, LAMBDA closed :
    IF Len(lines) = 0 THEN closed
    ELSE Let(strip(lines[1]), LAMBDA stripped :
         Let(\/ REFERENCE_LEAD_PATTERN(stripped) # NoMatch
             \/ LOOSE_REFERENCE_LEAD_PATTERN(stripped) # NoMatch,
             LAMBDA numbered :
         IF stripped = ""
         THEN ExtractLoop(Tail(lines), <<>>, closed)
         ELSE IF numbered
         THEN ExtractLoop(Tail(lines),
                          <<_strip_reference_lead(stripped)>>, closed)
         ELSE ExtractLoop(Tail(lines), Append(current, stripped), refs))))

\* extract_references
extract_references(text) == ExtractLoop(splitlines(text), <<>>, <<>>)


\* The first index at or after i where Found holds, or NoMatch.
FirstFrom(s, i, Found(_)) ==
    LET hits == { j \in i..Len(s) : Found(j) }
    IN IF hits = {} THEN NoMatch ELSE Least(hits)

\* The pattern with a registrant code of any length: 10\.\d+/[^\s"<>]+
DOI_PATTERN_AnyRegistrant(s) ==
    LET DoiChar(c) == ~IsSpace(c) /\ c \notin {"\"", "<", ">"}
        Digits(i) == RunEnd(s, i + 3, IsDigit)
        End(i) == RunEnd(s, Digits(i) + 1, DoiChar)
        Matches(i) ==
            /\ StartsAt(s, i, "10.")
            /\ Digits(i) - (i + 3) >= 1
            /\ At(s, Digits(i)) = "/"
            /\ End(i) > Digits(i) + 1
        start == FirstFrom(s, 1, Matches)
    IN IF start = NoMatch THEN "" ELSE SubSeq(s, start, End(start) - 1)

\* DOI_PATTERN.search(s).group(0), "" when nothing matches.
\* 10\.\d{4,9}/[^\s"<>]+
DOI_PATTERN(s) ==
    LET DoiChar(c) == ~IsSpace(c) /\ c \notin {"\"", "<", ">"}
        Digits(i) == RunEnd(s, i + 3, IsDigit)
        End(i) == RunEnd(s, Digits(i) + 1, DoiChar)
        Matches(i) ==
            /\ StartsAt(s, i, "10.")
            /\ Digits(i) - (i + 3) \in 4..9
            /\ At(s, Digits(i)) = "/"
            /\ End(i) > Digits(i) + 1
        start == FirstFrom(s, 1, Matches)
    IN IF start = NoMatch THEN "" ELSE SubSeq(s, start, End(start) - 1)

\* URL_PATTERN.search(s).group(0), "" when nothing matches.
\* https?://\S+ whatever the case of the scheme
URL_PATTERN(s) ==
    LET NotSpace(c) == ~IsSpace(c)
        Scheme(i) ==
            IF i + 6 <= Len(s) /\ lower(SubSeq(s, i, i + 6)) = "http://"
            THEN 7
            ELSE IF i + 7 <= Len(s)
                    /\ lower(SubSeq(s, i, i + 7)) = "https://"
            THEN 8
            ELSE 0
        Matches(i) ==
            /\ Scheme(i) > 0
            /\ RunEnd(s, i + Scheme(i), NotSpace) > i + Scheme(i)
        start == FirstFrom(s, 1, Matches)
    IN IF start = NoMatch THEN ""
       ELSE SubSeq(s, start, RunEnd(s, start + Scheme(start), NotSpace) - 1)

TRAILING_PUNCTUATION == ".,);:]\"'"

_strip_trailing_punctuation(value) == RStripChars(value, TRAILING_PUNCTUATION)

\* \b between s[i - 1] and s[i]
WordBoundary(s, i) == IsWord(At(s, i - 1)) # IsWord(At(s, i))

\* YEAR_PATTERN.search(s).start(), NoMatch when nothing matches.
\* \b(19|20)\d{2}\b
YEAR_PATTERN(s) ==
    LET Matches(i) ==
            /\ StartsAt(s, i, "19") \/ StartsAt(s, i, "20")
            /\ IsDigit(At(s, i + 2)) /\ IsDigit(At(s, i + 3))
            /\ WordBoundary(s, i) /\ WordBoundary(s, i + 4)
    IN FirstFrom(s, 1, Matches)

\* TITLE_PATTERN.search(s).group(1), "" when nothing matches.
\* \.\s+([A-Z][^.]+?)\.\s+[A-Z]
TITLE_PATTERN(s) ==
    LET NotDot(c) == c # "."
        Start(i) == RunEnd(s, i + 1, IsSpace)
        Dot(i) == RunEnd(s, Start(i) + 1, NotDot)
        After(i) == RunEnd(s, Dot(i) + 1, IsSpace)
        Matches(i) ==
            /\ At(s, i) = "."
            /\ Start(i) > i + 1
            /\ IsUpper(At(s, Start(i)))
            /\ Dot(i) > Start(i) + 1
            /\ At(s, Dot(i)) = "."
            /\ After(i) > Dot(i) + 1
            /\ IsUpper(At(s, After(i)))
        start == FirstFrom(s, 1, Matches)
    IN IF start = NoMatch THEN ""
       ELSE SubSeq(s, Start(start), Dot(start) - 1)

\* The index of the first occurrence of sep in s at or after i, or NoMatch.
Find(s, sep, i) ==
    LET Here(j) == StartsAt(s, j, sep) IN FirstFrom(s, i, Here)

\* str.split(sep)
RECURSIVE Split(_, _)
Split(s, sep) ==
    LET at == Find(s, sep, 1)
    IN IF at = NoMatch THEN <<s>>
       ELSE <<SubSeq(s, 1, at - 1)>>
            \o Split(SubSeq(s, at + Len(sep), Len(s)), sep)

\* s.count(c) for a character c
Count(s, c) == Cardinality({ i \in 1..Len(s) : At(s, i) = c })

\* len(s.split()): the runs of characters that are not whitespace.
Words(s) ==
    Cardinality({ i \in 1..Len(s) :
                    ~IsSpace(At(s, i)) /\ (i = 1 \/ IsSpace(At(s, i - 1))) })

\* derive_title
derive_title(reference) ==
    Let(_strip_reference_lead(reference), LAMBDA cleaned :
    Let(strip(Split(cleaned, "http")[1]), LAMBDA pre_url :
    Let(TITLE_PATTERN(pre_url), LAMBDA match :
    Let(YEAR_PATTERN(pre_url), LAMBDA year_match :
    Let(IF year_match # NoMatch
        THEN RStripChars(SubSeq(pre_url, 1, year_match - 1), "., ;")
        ELSE pre_url, LAMBDA search_scope :
    Let(Split(search_scope, ". "), LAMBDA parts :
    Let(SelectSeq([i \in 1..Len(parts) |-> strip(parts[i])],
                  LAMBDA segment : segment # ""), LAMBDA segments :
    Let(SelectSeq(segments,
                  LAMBDA segment :
                      /\ ~(Count(segment, ";") >= 1
                           /\ Count(segment, " ") <= 3)
                      /\ Words(segment) >= 3), LAMBDA fitting :
    Let(IF Len(fitting) > 0 THEN fitting[1]
        ELSE IF Len(segments) > 0 THEN segments[1]
        ELSE pre_url, LAMBDA candidate :
    IF cleaned = "" THEN ""
    ELSE IF match # "" THEN strip(match)
    ELSE StripChars(candidate, " .;:,-"))))))))))

\* sub in s
Contains(s, sub) == Find(s, sub, 1) # NoMatch

\* DOI_PATTERN.sub("", s) and URL_PATTERN.sub("", s): every match removed.
RECURSIVE RemoveDois(_)
RemoveDois(s) ==
    Let(DOI_PATTERN(s), LAMBDA match :
    Let(Find(s, match, 1), LAMBDA at :
    IF match = "" THEN s
    ELSE SubSeq(s, 1, at - 1)
         \o RemoveDois(SubSeq(s, at + Len(match), Len(s)))))

RECURSIVE RemoveUrls(_)
RemoveUrls(s) ==
    Let(URL_PATTERN(s), LAMBDA match :
    Let(Find(s, match, 1), LAMBDA at :
    IF match = "" THEN s
    ELSE SubSeq(s, 1, at - 1)
         \o RemoveUrls(SubSeq(s, at + Len(match), Len(s)))))

\* [A-Za-z'-], the characters of a family name (the grave accent the
\* pattern also takes is left out of the alphabet).
IsNameChar(c) == IsLetter(c) \/ c \in {"'", "-"}

\* _extract_first_author: the name that ends the text before the first
\* comma. ([A-Z][A-Za-z'`-]+)$
_extract_first_author(reference) ==
    Let(_strip_reference_lead(reference), LAMBDA cleaned :
    Let(strip(Split(cleaned, ",")[1]), LAMBDA first_segment :
    Let(FirstFrom(first_segment, 1,
                  LAMBDA i :
                      /\ IsUpper(At(first_segment, i))
                      /\ i < Len(first_segment)
                      /\ \A k \in (i + 1)..Len(first_segment) :
                             IsNameChar(At(first_segment, k))),
        LAMBDA start :
    IF start = NoMatch THEN ""
    ELSE SubSeq(first_segment, start, Len(first_segment)))))

\* JOURNAL_BEFORE_YEAR_PATTERN.search(s).group(1), "" when nothing matches.
\* [,;]\s*([^,;]+?)(?=[,;]\s*(?:19|20)\d{2}\b)
JOURNAL_BEFORE_YEAR_PATTERN(s) ==
    LET IsSep(c) == c \in {",", ";"}
        NotSep(c) == ~IsSep(c)
        Next(i) == RunEnd(s, i + 1, NotSep)
        Year(i) == RunEnd(s, Next(i) + 1, IsSpace)
        Matches(i) ==
            /\ IsSep(At(s, i))
            /\ Next(i) > i + 1
            /\ Next(i) <= Len(s)
            /\ StartsAt(s, Year(i), "19") \/ StartsAt(s, Year(i), "20")
            /\ IsDigit(At(s, Year(i) + 2)) /\ IsDigit(At(s, Year(i) + 3))
            /\ WordBoundary(s, Year(i) + 4)
        start == FirstFrom(s, 1, Matches)
        first == RunEnd(s, start + 1, IsSpace)
    IN IF start = NoMatch THEN ""
       ELSE IF first < Next(start) THEN SubSeq(s, first, Next(start) - 1)
       ELSE At(s, Next(start) - 1)

\* _extract_journal
_extract_journal(reference) ==
    Let(_strip_reference_lead(reference), LAMBDA cleaned :
    Let(JOURNAL_BEFORE_YEAR_PATTERN(RemoveUrls(RemoveDois(cleaned))),
        LAMBDA match :
    IF cleaned = "" THEN "" ELSE StripChars(match, " .,;:()")))

\* PAGES_PATTERN.search(s).group(1), "" when nothing matches.
\* \b(\d{1,4}\s*[-]\s*\d{1,4})\b, the dash a hyphen (the en dash the
\* pattern also takes lies outside ASCII)
PAGES_PATTERN(s) ==
    LET First(i) == RunEnd(s, i, IsDigit)
        Dash(i) == RunEnd(s, First(i), IsSpace)
        Second(i) == RunEnd(s, Dash(i) + 1, IsSpace)
        End(i) == RunEnd(s, Second(i), IsDigit)
        Matches(i) ==
            /\ ~IsWord(At(s, i - 1))
            /\ First(i) - i \in 1..4
            /\ At(s, Dash(i)) = "-"
            /\ End(i) - Second(i) \in 1..4
            /\ ~IsWord(At(s, End(i)))
        start == FirstFrom(s, 1, Matches)
    IN IF start = NoMatch THEN "" ELSE SubSeq(s, start, End(start) - 1)

\* s.replace(" ", "")
RemoveSpaces(s) ==
    LET IsBlank(c) == c = " " IN ReplaceRuns(s, IsBlank, "")

\* re.match(r"^[A-Z][A-Za-z'`-]+,?\s*[A-Z]?\.?$", title): a bare author
\* name such as "Smith", "Smith J" or "Smith, J."
LooksLikeAuthor(title) ==
    LET name == RunEnd(title, 2, IsNameChar)
        comma == IF At(title, name) = "," THEN name + 1 ELSE name
        initial == RunEnd(title, comma, IsSpace)
        dot == IF IsUpper(At(title, initial)) THEN initial + 1 ELSE initial
        end == IF At(title, dot) = "." THEN dot + 1 ELSE dot
    IN /\ IsUpper(At(title, 1))
       /\ name > 2
       /\ end = Len(title) + 1

\* list(dict.fromkeys(items)): the first occurrence of every item.
Distinct(items) ==
    LET firsts == { i \in 1..Len(items) :
                      \A j \in 1..(i - 1) : items[j] # items[i] }
        Nth(n) == CHOOSE i \in firsts :
                      Cardinality({ j \in firsts : j <= i }) = n
    IN [n \in 1..Cardinality(firsts) |-> items[Nth(n)]]

\* The free-text branch reduced to the derived title.
FreeTextQuery_TitleOnly(reference, cleaned) == strip(derive_title(reference))

\* The free-text branch of build_search_query.
FreeTextQuery(reference, cleaned) ==
    Let(strip(CollapseSpaces(cleaned)), LAMBDA normalized_reference :
    Let(strip(derive_title(reference)), LAMBDA title :
    Let(/\ title # ""
        /\ Len(title) >= 8
        /\ ~Contains(title, ",")
        /\ ~LooksLikeAuthor(title), LAMBDA title_is_valid :
    Let(_extract_journal(reference), LAMBDA journal :
    Let(YEAR_PATTERN(cleaned), LAMBDA year_match :
    Let((IF normalized_reference = "" THEN <<>>
         ELSE <<normalized_reference>>)
        \o (IF title_is_valid THEN <<title>> ELSE <<>>)
        \o (IF journal # ""
               /\ (~title_is_valid
                   \/ ~Contains(lower(title), lower(journal)))
            THEN <<journal>> ELSE <<>>)
        \o (IF year_match # NoMatch
            THEN <<SubSeq(cleaned, year_match, year_match + 3)>>
            ELSE <<>>)
        \o Let(RemoveSpaces(PAGES_PATTERN(cleaned)),
               LAMBDA pages : IF pages = "" THEN <<>> ELSE <<pages>>)
        \o Let(_extract_first_author(reference),
               LAMBDA author : IF author = "" THEN <<>> ELSE <<author>>),
        LAMBDA components :
    IF Len(components) = 0 THEN cleaned
    ELSE Join(Distinct(components), " ")))))))

\* build_search_query with the URL looked for before the DOI.
build_search_query_UrlFirst(reference) ==
    Let(_strip_reference_lead(reference), LAMBDA cleaned :
    Let(DOI_PATTERN(cleaned), LAMBDA doi_match :
    Let(URL_PATTERN(cleaned), LAMBDA url_match :
    IF cleaned = "" THEN reference
    ELSE IF url_match # "" THEN _strip_trailing_punctuation(url_match)
    ELSE IF doi_match # "" THEN _strip_trailing_punctuation(doi_match)
    ELSE FreeTextQuery(reference, cleaned))))

\* build_search_query
build_search_query(reference) ==
    Let(_strip_reference_lead(reference), LAMBDA cleaned :
    Let(DOI_PATTERN(cleaned), LAMBDA doi_match :
    Let(URL_PATTERN(cleaned), LAMBDA url_match :
    IF cleaned = "" THEN reference
    ELSE IF doi_match # "" THEN _strip_trailing_punctuation(doi_match)
    ELSE IF url_match # "" THEN _strip_trailing_punctuation(url_match)
    ELSE FreeTextQuery(reference, cleaned))))

\* build_reference_signature with the URL looked for before the DOI.
build_reference_signature_UrlFirst(reference, title) ==
    Let(_strip_reference_lead(reference), LAMBDA cleaned :
    Let(DOI_PATTERN(cleaned), LAMBDA doi_match :
    Let(URL_PATTERN(cleaned), LAMBDA url_match :
    Let(lower(strip(CollapseSpaces(title))), LAMBDA normalized_title :
    IF cleaned = "" THEN ""
    ELSE IF url_match # ""
    THEN "url:" \o lower(_strip_trailing_punctuation(url_match))
    ELSE IF doi_match # ""
    THEN "doi:" \o lower(_strip_trailing_punctuation(doi_match))
    ELSE IF normalized_title # "" THEN "title:" \o normalized_title
    ELSE lower(strip(CollapseSpaces(cleaned)))))))

\* build_reference_signature; "" stands for the None it returns.
build_reference_signature(reference, title) ==
    Let(_strip_reference_lead(reference), LAMBDA cleaned :
    Let(DOI_PATTERN(cleaned), LAMBDA doi_match :
    Let(URL_PATTERN(cleaned), LAMBDA url_match :
    Let(lower(strip(CollapseSpaces(title))), LAMBDA normalized_title :
    IF cleaned = "" THEN ""
    ELSE IF doi_match # ""
    THEN "doi:" \o lower(_strip_trailing_punctuation(doi_match))
    ELSE IF url_match # ""
    THEN "url:" \o lower(_strip_trailing_punctuation(url_match))
    ELSE IF normalized_title # "" THEN "title:" \o normalized_title
    ELSE lower(strip(CollapseSpaces(cleaned)))))))

\* normalise_url of main.py: an identifier that is no http(s) URL becomes
\* a doi.org URL.
normalise_url(identifier) ==
    Let(strip(identifier), LAMBDA stripped :
        IF StartsAt(stripped, 1, "http://") \/ StartsAt(stripped, 1, "https://")
        THEN stripped
        ELSE "https://doi.org/" \o stripped)

\* A bibliography entry as the task-building loop sees it: its text, what
\* DOI_PATTERN and URL_PATTERN find in it, the title derive_title returns
\* for it and its signature ("" for None).
Reference(text) ==
    Let(_strip_reference_lead(text), LAMBDA cleaned :
    Let(derive_title(text), LAMBDA title :
        [text |-> text,
         doi |-> DOI_PATTERN(cleaned),
         url |-> URL_PATTERN(cleaned),
         title |-> title,
         signature |-> build_reference_signature(text, title)]))

\* The entries the orchestrator is run on, as Reference gives them.
RefPool ==
    { [text |-> "Smith J. Title One. 2020. doi:10.1000/abc",
       doi |-> "10.1000/abc", url |-> "", title |-> "Smith J",
       signature |-> "doi:10.1000/abc"],
      [text |-> "J. Smith (2020) DOI 10.1000/ABC.",
       doi |-> "10.1000/ABC.", url |-> "", title |-> "J",
       signature |-> "doi:10.1000/abc"],
      [text |-> "Jones K. Title Two. 2019",
       doi |-> "", url |-> "", title |-> "Jones K",
       signature |-> "title:jones k"] }

\* INVALID_FILENAME_CHARS.sub("_", s) followed by re.sub(r"_+", "_", ...):
\* every run of underscores and of characters outside [A-Za-z0-9._-]
\* becomes one underscore.
UnderscoreRuns(s) ==
    LET Invalid(c) == ~(IsLetter(c) \/ IsDigit(c) \/ c \in {".", "-"})
    IN ReplaceRuns(s, Invalid, "_")

\* The body of _sanitize_filename (NFKD leaves ASCII as it is).
SanitizeText(name) == StripChars(UnderscoreRuns(strip(name)), "._")

\* _sanitize_filename, with its values for the titles of the orchestrator
\* written out.
_sanitize_filename(name) ==
    CASE name = "Smith J" -> "Smith_J"
      [] name = "Jones K" -> "Jones_K"
      [] name = "J" -> "J"
      [] name = "Found Title" -> "Found_Title"
      [] OTHER -> SanitizeText(name)

\* f"reference_{index:03d}" for the indices the model reaches.
ReferenceName(index) == "reference_00" \o ToString(index)

ReferenceTask(index, reference, output_name, duplicate_of) ==
    [index |-> index, reference |-> reference.text,
     output_name |-> output_name, duplicate_of |-> duplicate_of]

DownloadResult(target, success, message, destination, used_filename) ==
    [target |-> target, success |-> success, message |-> message,
     destination |-> destination, used_filename |-> used_filename]

\* Variant: seen keeps the index that carried the signature last.
RECURSIVE BuildTasks_LastCarrier(_, _, _, _)
BuildTasks_LastCarrier(refs, index, seen, tasks_acc) ==
    IF index > Len(refs) THEN tasks_acc
    ELSE
      LET reference == refs[index]
          title == reference.title
          sanitized_title == IF title # "" THEN _sanitize_filename(title) ELSE ""
          output_name == IF sanitized_title # "" THEN sanitized_title
                         ELSE ReferenceName(index)
          signature == reference.signature
          known == signature # "" /\ signature \in DOMAIN seen
          duplicate_of == IF known THEN seen[signature] ELSE NoDup
          seen2 == IF signature # ""
                   THEN [s \in DOMAIN seen \cup {signature} |->
                           IF s = signature THEN index ELSE seen[s]]
                   ELSE seen
      IN BuildTasks_LastCarrier(refs, index + 1, seen2,
                    Append(tasks_acc,
                           ReferenceTask(index, reference, output_name, duplicate_of)))

\* The task-building loop of _run_downloads: seen maps a signature to the
\* index that first carried it; a later carrier becomes duplicate_of it.
RECURSIVE BuildTasks(_, _, _, _)
BuildTasks(refs, index, seen, tasks_acc) ==
    IF index > Len(refs) THEN tasks_acc
    ELSE
      LET reference == refs[index]
          title == reference.title
          sanitized_title == IF title # "" THEN _sanitize_filename(title) ELSE ""
          output_name == IF sanitized_title # "" THEN sanitized_title
                         ELSE ReferenceName(index)
          signature == reference.signature
          known == signature # "" /\ signature \in DOMAIN seen
          duplicate_of == IF known THEN seen[signature] ELSE NoDup
          seen2 == IF signature # "" /\ ~known
                   THEN [s \in DOMAIN seen \cup {signature} |->
                           IF s = signature THEN index ELSE seen[s]]
                   ELSE seen
      IN BuildTasks(refs, index + 1, seen2,
                    Append(tasks_acc,
                           ReferenceTask(index, reference, output_name, duplicate_of)))

EmptyMap == [s \in {} |-> 0]

\* Variant: the retry's reason replaces the first one.
_merge_failure_messages_RetryOnly(initial, retry) ==
    IF retry # "" THEN "retry attempt: " \o retry ELSE ""

\* _merge_failure_messages
_merge_failure_messages(initial, retry) ==
    LET p1 == IF initial # "" THEN <<"initial attempt: " \o initial>> ELSE <<>>
        p2 == IF retry # "" THEN <<"retry attempt: " \o retry>> ELSE <<>>
        parts == p1 \o p2
    IN IF Len(parts) = 0 THEN ""
       ELSE IF Len(parts) = 1 THEN parts[1]
       ELSE parts[1] \o "; " \o parts[2]

\* App._append_manual_note
_append_manual_note(previous, note) ==
    IF previous # "" THEN previous \o "; " \o note ELSE note

\* _dedupe_path: the first of stem.suffix, stem_1.suffix, stem_2.suffix, ...
\* that names no existing file.
RECURSIVE DedupeFrom(_, _, _, _)
DedupeFrom(stem, suffix, counter, files) ==
    LET candidate == stem \o "_" \o ToString(counter)
    IN IF (candidate \o suffix) \in files
       THEN DedupeFrom(stem, suffix, counter + 1, files)
       ELSE candidate

\* Variant: the path is returned as it was given.
_dedupe_path_AsGiven(stem, suffix, files) == stem

\* The stem of the path _dedupe_path returns for stem + suffix.
_dedupe_path(stem, suffix, files) ==
    IF (stem \o suffix) \in files THEN DedupeFrom(stem, suffix, 1, files) ELSE stem


\* ---------------------------------------------------------- variables
\* The orchestrator (App): the worker thread's position and locals, the
\* state the UI thread shares with it, and the destination folder.
VARIABLES
    pc,                         \* where the worker thread is
    references,                 \* the list handed to _run_downloads
    tasks,                      \* List[ReferenceTask]
    final_results,              \* List[Optional[DownloadResult]]
    retry_candidates,           \* failures of Phase 1: [slot, first_result]
    pending,                    \* _run_manual_fallback's list: [slot, previous]
    pos,                        \* position of the running for-loop
    skip_event,                 \* App._skip_event
    manual_retry_var,           \* the "manual fallback" checkbox
    manual_prompt_acknowledged, \* App._manual_prompt_acknowledged
    downloader,                 \* the run's browser session: "none",
                                \* "open", "closed", or "orphaned" (open,
                                \* and self.downloader does not hold it)
    dest_files,                 \* file names present in the destination
    error_message,              \* str(exc) of the exception being handled
    results,                    \* the list the summary is built from
    unique_failures,            \* slots of the results the summary lists
    report_path,                \* the missing-items report, once written
    PDF_MERGER_AVAILABLE,       \* PyPDF2 was found ("unknown" until read)
    combined_path,              \* the merged PDF, once written
    combine_message,            \* why no merged PDF was written
    summaries                   \* the summaries handed to _finish

\* Observations of the run, written by the actions and read only by the
\* properties.
VARIABLES
    phase1_results,             \* each slot as Phase 1 left it
    attempts,                   \* per slot: calls made in phases 1, 2, 3
    prompt_log,                 \* manual items: [slot, prompted, answer]
    skip_at,                    \* attempt in progress when skip was set
    skip_leaked                 \* a skip set in one attempt ended another

\* One call of PDFDownloader.download, or of wait_for_manual_pdf, with the
\* folder it watches.
VARIABLES
    det_mode,                   \* "none", "auto" (download) or "manual"
    det_pc,                     \* where the call is
    folder,                     \* the watched folder: file name -> size
    existing_files,             \* the snapshot of the folder
    elapsed,                    \* seconds slept since the deadline was set
    downloaded,                 \* the file the detector returned
    det_result,                 \* download's DownloadResult, once returned
    size_tracker,               \* wait_for_manual_pdf: last size per file
    stable_counts               \* wait_for_manual_pdf: unchanged polls

\* Observations of the call.
VARIABLES
    seen_sizes,                 \* candidate sizes at the previous listing
    seen_stable,                \* the returned file had kept its size
    skip_in_poll,               \* the skip flag was set during the polling
    leftover                    \* where the download that was unfinished
                                \* when the call started is: "none",
                                \* "part" (in-progress name) or "pdf"

\* The verification challenge of Google Scholar and _handle_challenge.
VARIABLES
    challenge,                  \* the page shows a verification marker
    gate,                       \* the stage whose gate found a marker
    challenged,                 \* a gate of this call waited and returned
    skip_in_gate,               \* the skip flag was set inside a gate
    notify_wait                 \* seconds the open dialog outlasted a skip

\* The bibliography text on its way to the task list and the queries.
VARIABLES
    text_box,                   \* the content of the text box
    text_pc,                    \* "none", then "input" ... "searched"
    queries                     \* build_search_query's result per task

textVars == <<text_box, text_pc, queries>>

\* One run of a DOI downloader: the worker of main.py, or download_all of
\* bibliography_downloader.py.
VARIABLES
    doi_prog,                   \* "none", "main" or "bib"
    doi_pc,                     \* where the run is
    dois,                       \* how many DOIs (URLs) the run was given
    doi_index,                  \* the one being processed, from 1
    download_dir,               \* the names of the files in the folder
    known_files,                \* the snapshot of the folder
    direct,                     \* driver.current_url is the PDF's URL
    started,                    \* what started the item's download:
                                \* "none", "get", "click" or "open"
    waited,                     \* looks wait_for_download has taken
    ready,                      \* the item's ready wait: "unreached",
                                \* "complete" or "timeout"
    located,                    \* the item went on to link location
    doi_log                     \* the outcome logged for each item

doiVars == <<doi_prog, doi_pc, dois, doi_index, download_dir, known_files,
             direct, started, waited, ready, located, doi_log>>

detVars == <<det_mode, det_pc, folder, existing_files, elapsed, downloaded,
             det_result, size_tracker, stable_counts,
             seen_sizes, seen_stable, skip_in_poll, leftover,
             challenge, gate, challenged, skip_in_gate, notify_wait>>
gateVars == <<challenge, gate, challenged, skip_in_gate, notify_wait>>

orchVars == <<pc, references, tasks, final_results, retry_candidates, pending,
              pos, skip_event, manual_retry_var, manual_prompt_acknowledged,
              downloader, dest_files, error_message, results,
              unique_failures, report_path,
              PDF_MERGER_AVAILABLE, combined_path, combine_message, summaries>>
aggVars == <<unique_failures, report_path,
             PDF_MERGER_AVAILABLE, combined_path, combine_message, summaries>>
obsVars == <<phase1_results, attempts, prompt_log, skip_at, skip_leaked>>
vars == <<orchVars, obsVars, detVars, textVars, doiVars>>

\* -------------------------------------------------------------- inputs
\* Bibliographies of one to MaxRefs entries.
RefLists == UNION { [1..n -> RefPool] : n \in 1..MaxRefs }

\* Failure messages PDFDownloader.download returns, as the orchestrator
\* sees them.
DownloadFailures ==
    { "Download did not complete in time" }

\* Title of the first Scholar result ("" when the result has no h3).
ResultTitles == { "", "Found Title" }

\* Failure notes of one manual-fallback item after the user agreed.
ManualFailures ==
    { "Manual fallback timed out",
      "Could not move manual download ([Errno 13] Permission denied)" }

\* What _perform_manual_download notes when it opened a detected link
\* itself ("" when it opened none).
AutoNotes == { "" }

NoAttempt == <<0, 0>>

\* The attempt the worker is inside: <<phase, slot>>, or NoAttempt.
CurrentAttempt ==
    CASE pc = "download1" -> <<1, tasks[pos].index>>
      [] pc = "download2" -> <<2, retry_candidates[pos].slot>>
      [] pc \in {"prompt", "manual_item"} -> <<3, pending[pos].slot>>
      [] OTHER -> NoAttempt

Bump(att, slot, phase) ==
    [att EXCEPT ![slot] = [@ EXCEPT ![phase] = @ + 1]]

\* ---------------------------------------------------------------- Init
\* No DOI downloader runs.
DoiIdle ==
    /\ doi_prog = "none"
    /\ doi_pc = "none"
    /\ dois = 0
    /\ doi_index = 0
    /\ download_dir = {}
    /\ known_files = {}
    /\ direct = FALSE
    /\ started = "none"
    /\ waited = 0
    /\ ready = "unreached"
    /\ located = FALSE
    /\ doi_log = <<>>

\* No bibliography text is being followed.
TextIdle ==
    /\ text_box = ""
    /\ text_pc = "none"
    /\ queries = <<>>

\* App.__init__: no thread, skip flag clear, manual fallback ticked.
OrchInit ==
    /\ pc = "idle"
    /\ references = <<>>
    /\ tasks = <<>>
    /\ final_results = <<>>
    /\ retry_candidates = <<>>
    /\ pending = <<>>
    /\ pos = 0
    /\ skip_event = FALSE
    /\ manual_retry_var = TRUE
    /\ manual_prompt_acknowledged = FALSE
    /\ downloader = "none"
    /\ dest_files = {}
    /\ error_message = ""
    /\ results = <<>>
    /\ unique_failures = <<>>
    /\ report_path = NoPath
    /\ PDF_MERGER_AVAILABLE = "unknown"
    /\ combined_path = NoPath
    /\ combine_message = ""
    /\ summaries = <<>>
    /\ phase1_results = <<>>
    /\ attempts = <<>>
    /\ prompt_log = <<>>
    /\ skip_at = NoAttempt
    /\ skip_leaked = FALSE

\* ------------------------------------------------ one automated attempt
\* What a call hands back to its caller: a DownloadResult (with the file it
\* moved into the destination, and whether a SkipRequested ended it), or an
\* exception that leaves the call.
Returned(result, moved, skipped) ==
    [raised |-> FALSE, result |-> result, moved |-> moved, error |-> "",
     skipped |-> skipped]
Raised(error) ==
    [raised |-> TRUE, result |-> None, moved |-> NoPath, error |-> error,
     skipped |-> FALSE]

\* PDFDownloader.download as the orchestrator sees it. Every SkipRequested
\* and every selenium failure is turned into a returned failure; a
\* completed file is moved to the deduplicated destination by a
\* shutil.move that no try guards, so its OSError leaves the call.
download(task, files, skip) ==
    LET reference == task.reference
        failed(message, skipped) ==
            Returned(DownloadResult(reference, FALSE, message, NoPath, NoPath),
                     NoPath, skipped)
        moved(result_title) ==
            LET sanitized_title == IF result_title # ""
                                   THEN _sanitize_filename(result_title) ELSE ""
                final_name == IF sanitized_title # "" THEN sanitized_title
                              ELSE task.output_name
                stem == _dedupe_path(final_name, ".pdf", files)
            IN Returned(DownloadResult(reference, TRUE, "Downloaded",
                                       stem \o ".pdf", stem),
                        stem \o ".pdf", FALSE)
    IN (IF skip THEN {failed("Skipped by user", TRUE)} ELSE {})
       \cup {failed(m, FALSE) : m \in DownloadFailures}
       \cup {moved(t) : t \in ResultTitles}
       \cup {Raised("[Errno 13] Permission denied")}

\* ------------------------------------------------------- the UI thread
\* Variant: no worker thread is ever found alive.
ThreadAlive_Never == FALSE

\* self.download_thread and self.download_thread.is_alive(): the worker
\* runs from its start to the end of _run_downloads.
ThreadAlive == pc \notin {"idle", "done"}

\* App._start_download: while a thread is alive the request is answered
\* with a dialog and nothing else happens; else the skip flag is cleared
\* and the worker started on the parsed entries. One run is followed: no
\* second run starts after the first has ended.
StartDownload ==
    IF ThreadAlive
    THEN UNCHANGED vars
    ELSE /\ pc # "done"
         /\ \E refs \in RefLists :
               references' = refs
         /\ skip_event' = FALSE
         /\ pc' = "setup"
         /\ skip_at' = NoAttempt
         /\ UNCHANGED <<tasks, final_results, retry_candidates, pending, pos,
                        manual_retry_var, manual_prompt_acknowledged,
                        downloader, dest_files, error_message, results,
                        phase1_results, attempts, prompt_log, skip_leaked>>
         /\ UNCHANGED <<detVars, textVars, doiVars>>
         /\ UNCHANGED aggVars

\* App._request_skip: ignored unless the worker thread is alive. skip_at
\* keeps the first attempt the flag was requested in since it was last
\* clear, and NoAttempt while every request was made outside an attempt.
RequestSkip ==
    /\ pc \notin {"idle", "done"}
    /\ skip_event' = TRUE
    /\ skip_at' = IF skip_event /\ skip_at # NoAttempt THEN skip_at
                  ELSE CurrentAttempt
    /\ UNCHANGED <<pc, references, tasks, final_results, retry_candidates,
                   pending, pos, manual_retry_var, manual_prompt_acknowledged,
                   downloader, dest_files, error_message, results,
                   phase1_results, attempts, prompt_log, skip_leaked>>
    /\ UNCHANGED <<detVars, textVars, doiVars>>
    /\ UNCHANGED aggVars

\* The user ticks or unticks the manual-fallback checkbox. The worker reads
\* the checkbox once, when Phase 2 is over, so only the value it has then
\* matters: the model lets the user change it at that point.
ToggleManualRetry ==
    /\ pc = "phase3"
    /\ manual_retry_var' = ~manual_retry_var
    /\ UNCHANGED <<pc, references, tasks, final_results, retry_candidates,
                   pending, pos, skip_event, manual_prompt_acknowledged,
                   downloader, dest_files, error_message, results>>
    /\ UNCHANGED obsVars
    /\ UNCHANGED <<detVars, textVars, doiVars>>
    /\ UNCHANGED aggVars

\* ---------------------------------------------------- the worker thread
\* _run_downloads up to the try: the prompt flag is reset, the tasks are
\* built and every reference gets an empty result slot.
RunSetup ==
    /\ pc = "setup"
    /\ manual_prompt_acknowledged' = FALSE
    /\ tasks' = BuildTasks(references, 1, EmptyMap, <<>>)
    /\ final_results' = [k \in 1..Len(references) |-> None]
    /\ retry_candidates' = <<>>
    /\ phase1_results' = [k \in 1..Len(references) |-> None]
    /\ attempts' = [k \in 1..Len(references) |-> <<0, 0, 0>>]
    /\ prompt_log' = <<>>
    /\ skip_leaked' = FALSE
    /\ pc' = "create"
    /\ UNCHANGED <<references, pending, pos, skip_event, manual_retry_var,
                   downloader, dest_files, error_message, results, skip_at>>
    /\ UNCHANGED <<detVars, textVars, doiVars>>
    /\ UNCHANGED aggVars

\* self.downloader = PDFDownloader(...): the constructor returns with the
\* browser session started; or it raises before any session exists
\* (selenium missing, the browser cannot be started); or it raises after
\* _create_driver started the browser (maximize_window or
\* current_window_handle fails), and then self.downloader is not assigned
\* while that session is left as it is.
CreateDownloader ==
    /\ pc = "create"
    /\ \/ /\ downloader' = "open"
          /\ pc' = "phase1"
          /\ pos' = 1
          /\ UNCHANGED error_message
       \/ /\ pc' = "except"
          /\ error_message' = "Selenium is not available."
          /\ UNCHANGED <<downloader, pos>>
       \/ /\ pc' = "except"
          /\ downloader' = "orphaned"
          /\ error_message' = "Message: failed to change window state"
          /\ UNCHANGED pos
    /\ UNCHANGED <<references, tasks, final_results, retry_candidates, pending,
                   skip_event, manual_retry_var, manual_prompt_acknowledged,
                   dest_files, results>>
    /\ UNCHANGED obsVars
    /\ UNCHANGED <<detVars, textVars, doiVars>>
    /\ UNCHANGED aggVars

\* Variant: the duplicate's slot receives the original's result object as
\* it stands, target included.
DuplicateResult_SharesOriginal(task, slots) ==
    IF task.duplicate_of \in 1..Len(slots) /\ slots[task.duplicate_of] # None
    THEN slots[task.duplicate_of]
    ELSE DownloadResult(task.reference, FALSE,
                        "Duplicate of entry " \o ToString(task.duplicate_of)
                          \o "; original result unavailable",
                        NoPath, NoPath)

\* The result Phase 1 stores for a duplicate: the original's outcome as it
\* stands when the loop reaches the duplicate.
DuplicateResult(task, slots) ==
    LET inRange == 0 <= task.duplicate_of - 1 /\ task.duplicate_of - 1 < Len(slots)
        original_result == IF inRange THEN slots[task.duplicate_of] ELSE None
        entry == ToString(task.duplicate_of)
    IN IF original_result # None
       THEN DownloadResult(
              task.reference,
              original_result.success,
              IF original_result.success
              THEN "Duplicate of entry " \o entry \o "; reused downloaded file"
              ELSE "Duplicate of entry " \o entry \o "; original failed: " \o
                   (IF original_result.message # "" THEN original_result.message
                    ELSE "original attempt failed"),
              original_result.destination,
              original_result.used_filename)
       ELSE DownloadResult(
              task.reference, FALSE,
              "Duplicate of entry " \o entry \o "; original result unavailable",
              NoPath, NoPath)

\* Phase 1, a duplicate: no retrieval, the slot is filled from the original.
Phase1Duplicate ==
    /\ pc = "phase1"
    /\ pos <= Len(tasks)
    /\ tasks[pos].duplicate_of # NoDup
    /\ LET task == tasks[pos]
           result == DuplicateResult(task, final_results)
       IN /\ final_results' = [final_results EXCEPT ![task.index] = result]
          /\ phase1_results' = [phase1_results EXCEPT ![task.index] = result]
    /\ pos' = pos + 1
    /\ UNCHANGED <<pc, references, tasks, retry_candidates, pending, skip_event,
                   manual_retry_var, manual_prompt_acknowledged, downloader,
                   dest_files, error_message, results,
                   attempts, prompt_log, skip_at, skip_leaked>>
    /\ UNCHANGED <<detVars, textVars, doiVars>>
    /\ UNCHANGED aggVars

\* Variant: Phase 1 hands a task to download whatever its duplicate_of.
Phase1Call_AnyTask ==
    /\ pc = "phase1"
    /\ pos <= Len(tasks)
    /\ pc' = "download1"
    /\ attempts' = Bump(attempts, tasks[pos].index, 1)
    /\ UNCHANGED <<references, tasks, final_results, retry_candidates, pending,
                   pos, skip_event, manual_retry_var, manual_prompt_acknowledged,
                   downloader, dest_files, error_message, results,
                   phase1_results, prompt_log, skip_at, skip_leaked>>
    /\ UNCHANGED <<detVars, textVars, doiVars>>
    /\ UNCHANGED aggVars

\* Phase 1, any other task: self.downloader.download is called.
Phase1Call ==
    /\ pc = "phase1"
    /\ pos <= Len(tasks)
    /\ tasks[pos].duplicate_of = NoDup
    /\ pc' = "download1"
    /\ attempts' = Bump(attempts, tasks[pos].index, 1)
    /\ UNCHANGED <<references, tasks, final_results, retry_candidates, pending,
                   pos, skip_event, manual_retry_var, manual_prompt_acknowledged,
                   downloader, dest_files, error_message, results,
                   phase1_results, prompt_log, skip_at, skip_leaked>>
    /\ UNCHANGED <<detVars, textVars, doiVars>>
    /\ UNCHANGED aggVars

\* The exception leaves the try of _run_downloads.
Abort(error) ==
    /\ pc' = "except"
    /\ error_message' = error

\* What every return of an attempt does to the observations: an attempt
\* that ends on the skip flag is checked against the attempt that was in
\* progress when the flag was set.
NoteReturn(skipped) ==
    /\ skip_leaked' = (skip_leaked \/
                       (skipped /\ skip_at \notin {NoAttempt, CurrentAttempt}))
    /\ skip_at' = IF skip_event' THEN skip_at ELSE NoAttempt

\* Variant: the flag is left as the attempt found it.
ClearSkip_Forgotten == UNCHANGED skip_event

\* self._skip_event.clear(), which follows every return of an attempt.
ClearSkip == skip_event' = FALSE

\* Variant: a skipped attempt is not queued for the retry.
QueueRetry_UnlessSkipped(candidates, task, result) ==
    IF ~result.success /\ result.message # "Skipped by user"
    THEN Append(candidates, [slot |-> task.index, first_result |-> result])
    ELSE candidates

\* if not result.success: retry_candidates.append(...)
QueueRetry(candidates, task, result) ==
    IF ~result.success
    THEN Append(candidates, [slot |-> task.index, first_result |-> result])
    ELSE candidates

\* Phase 1: download returns; the skip flag is cleared, the result stored
\* in the task's slot, a failure queued for the retry.
Phase1Return ==
    /\ pc = "download1"
    /\ \E out \in download(tasks[pos], dest_files, skip_event) :
         IF out.raised
         THEN /\ Abort(out.error)
              /\ UNCHANGED <<pos, skip_event, final_results, retry_candidates,
                             dest_files, phase1_results, skip_at, skip_leaked>>
         ELSE LET task == tasks[pos]
                  result == out.result
              IN /\ ClearSkip
                 /\ final_results' = [final_results EXCEPT ![task.index] = result]
                 /\ phase1_results' = [phase1_results EXCEPT ![task.index] = result]
                 /\ retry_candidates' = QueueRetry(retry_candidates, task, result)
                 /\ dest_files' = IF out.moved # NoPath
                                  THEN dest_files \cup {out.moved} ELSE dest_files
                 /\ NoteReturn(out.skipped)
                 /\ pos' = pos + 1
                 /\ pc' = "phase1"
                 /\ UNCHANGED error_message
    /\ UNCHANGED <<references, tasks, pending, manual_retry_var,
                   manual_prompt_acknowledged, downloader, results,
                   attempts, prompt_log>>
    /\ UNCHANGED <<detVars, textVars, doiVars>>
    /\ UNCHANGED aggVars

\* Phase 1 is through the task list.
Phase1End ==
    /\ pc = "phase1"
    /\ pos > Len(tasks)
    /\ pc' = "phase2"
    /\ pos' = 1
    /\ UNCHANGED <<references, tasks, final_results, retry_candidates, pending,
                   skip_event, manual_retry_var, manual_prompt_acknowledged,
                   downloader, dest_files, error_message, results>>
    /\ UNCHANGED obsVars
    /\ UNCHANGED <<detVars, textVars, doiVars>>
    /\ UNCHANGED aggVars

\* ------------------------------------------------------------- Phase 2
\* The retry loop reaches a candidate: a duplicate is passed over, any
\* other task is handed to download once more.
Phase2Call ==
    /\ pc = "phase2"
    /\ pos <= Len(retry_candidates)
    /\ LET task == tasks[retry_candidates[pos].slot]
       IN IF task.duplicate_of # NoDup
          THEN /\ pos' = pos + 1
               /\ UNCHANGED <<pc, attempts>>
          ELSE /\ pc' = "download2"
               /\ attempts' = Bump(attempts, task.index, 2)
               /\ UNCHANGED pos
    /\ UNCHANGED <<references, tasks, final_results, retry_candidates, pending,
                   skip_event, manual_retry_var, manual_prompt_acknowledged,
                   downloader, dest_files, error_message, results,
                   phase1_results, prompt_log, skip_at, skip_leaked>>
    /\ UNCHANGED <<detVars, textVars, doiVars>>
    /\ UNCHANGED aggVars

\* The result the retry stores: a success is relabelled, a second failure
\* carries both reasons.
RetryResult(first_result, retry_result) ==
    IF retry_result.success
    THEN [retry_result EXCEPT !.message = "Downloaded on retry"]
    ELSE [retry_result EXCEPT !.message =
            _merge_failure_messages(first_result.message, retry_result.message)]

\* Phase 2: the retry returns; the flag is cleared and the candidate's slot
\* overwritten.
Phase2Return ==
    /\ pc = "download2"
    /\ LET candidate == retry_candidates[pos]
           task == tasks[candidate.slot]
       IN \E out \in download(task, dest_files, skip_event) :
            IF out.raised
            THEN /\ Abort(out.error)
                 /\ UNCHANGED <<pos, skip_event, final_results, dest_files,
                                skip_at, skip_leaked>>
            ELSE /\ ClearSkip
                 /\ final_results' =
                      [final_results EXCEPT ![candidate.slot] =
                          RetryResult(candidate.first_result, out.result)]
                 /\ dest_files' = IF out.moved # NoPath
                                  THEN dest_files \cup {out.moved} ELSE dest_files
                 /\ NoteReturn(out.skipped)
                 /\ pos' = pos + 1
                 /\ pc' = "phase2"
                 /\ UNCHANGED error_message
    /\ UNCHANGED <<references, tasks, retry_candidates, pending,
                   manual_retry_var, manual_prompt_acknowledged, downloader,
                   results, phase1_results, attempts, prompt_log>>
    /\ UNCHANGED <<detVars, textVars, doiVars>>
    /\ UNCHANGED aggVars

\* The retry loop is through (or there was nothing to retry).
Phase2End ==
    /\ pc = "phase2"
    /\ pos > Len(retry_candidates)
    /\ pc' = "phase3"
    /\ UNCHANGED <<references, tasks, final_results, retry_candidates, pending,
                   pos, skip_event, manual_retry_var, manual_prompt_acknowledged,
                   downloader, dest_files, error_message, results>>
    /\ UNCHANGED obsVars
    /\ UNCHANGED <<detVars, textVars, doiVars>>
    /\ UNCHANGED aggVars

\* ------------------------------------------------------------- Phase 3
\* Variant: every failed slot is pending, duplicates included.
PendingOf_WithDuplicates(task_list, slots) ==
    LET Failed(k) == slots[k] # None /\ ~slots[k].success
        indices == SelectSeq([k \in 1..Len(slots) |-> k], Failed)
    IN [n \in 1..Len(indices) |->
          [slot |-> indices[n], previous |-> slots[indices[n]]]]

\* The pending list of _run_manual_fallback: every task that is no
\* duplicate and whose slot holds a failure, in index order.
PendingOf(task_list, slots) ==
    LET Failed(k) == /\ task_list[k].duplicate_of = NoDup
                     /\ slots[k] # None
                     /\ ~slots[k].success
        indices == SelectSeq([k \in 1..Len(slots) |-> k], Failed)
    IN [n \in 1..Len(indices) |->
          [slot |-> indices[n], previous |-> slots[indices[n]]]]

\* The checkbox is off: _run_manual_fallback is not called.
ManualFallbackOff ==
    /\ pc = "phase3"
    /\ ~manual_retry_var
    /\ pc' = "finally"
    /\ UNCHANGED <<references, tasks, final_results, retry_candidates, pending,
                   pos, skip_event, manual_retry_var, manual_prompt_acknowledged,
                   downloader, dest_files, error_message, results>>
    /\ UNCHANGED obsVars
    /\ UNCHANGED <<detVars, textVars, doiVars>>
    /\ UNCHANGED aggVars

\* _run_manual_fallback up to its loop: nothing pending returns at once;
\* a downloads folder that cannot be made notes that on every pending
\* slot and returns; otherwise the loop starts.
RunManualFallback ==
    /\ pc = "phase3"
    /\ manual_retry_var
    /\ LET found == PendingOf(tasks, final_results)
       IN /\ pending' = found
          /\ IF Len(found) = 0
             THEN /\ pc' = "finally"
                  /\ UNCHANGED <<final_results, pos>>
             ELSE \/ /\ pc' = "manual"
                     /\ pos' = 1
                     /\ UNCHANGED final_results
                  \/ /\ final_results' =
                          [k \in 1..Len(final_results) |->
                             IF \E n \in 1..Len(found) : found[n].slot = k
                             THEN DownloadResult(
                                    final_results[k].target, FALSE,
                                    _append_manual_note(
                                       final_results[k].message,
                                       "Manual fallback unavailable ([Errno 13] Permission denied)"),
                                    NoPath, NoPath)
                             ELSE final_results[k]]
                     /\ pc' = "finally"
                     /\ UNCHANGED pos
    /\ UNCHANGED <<references, tasks, retry_candidates, skip_event,
                   manual_retry_var, manual_prompt_acknowledged, downloader,
                   dest_files, error_message, results>>
    /\ UNCHANGED obsVars
    /\ UNCHANGED <<detVars, textVars, doiVars>>
    /\ UNCHANGED aggVars

\* The loop calls _perform_manual_download for the next pending item: it
\* goes straight on when the prompt was acknowledged before, and otherwise
\* posts the confirmation prompt and blocks on it.
ManualCall ==
    /\ pc = "manual"
    /\ pos <= Len(pending)
    /\ attempts' = Bump(attempts, pending[pos].slot, 3)
    /\ IF manual_prompt_acknowledged
       THEN /\ pc' = "manual_item"
            /\ prompt_log' = Append(prompt_log,
                                    [slot |-> pending[pos].slot,
                                     prompted |-> FALSE, answer |-> TRUE])
       ELSE /\ pc' = "prompt"
            /\ UNCHANGED prompt_log
    /\ UNCHANGED <<references, tasks, final_results, retry_candidates, pending,
                   pos, skip_event, manual_retry_var, manual_prompt_acknowledged,
                   downloader, dest_files, error_message, results,
                   phase1_results, skip_at, skip_leaked>>
    /\ UNCHANGED <<detVars, textVars, doiVars>>
    /\ UNCHANGED aggVars

\* The slot update and flag clearing that follow every return of
\* _perform_manual_download in the loop.
ManualStore(manual_result, skipped) ==
    /\ ClearSkip
    /\ NoteReturn(skipped)
    /\ final_results' = [final_results EXCEPT ![pending[pos].slot] = manual_result]
    /\ pos' = pos + 1
    /\ pc' = "manual"

\* Variant: the prompt is remembered as shown whatever the answer.
AcknowledgePrompt_AnyAnswer(proceed) ==
    manual_prompt_acknowledged' = TRUE

\* if proceed: self._manual_prompt_acknowledged = True
AcknowledgePrompt(proceed) ==
    manual_prompt_acknowledged' = (manual_prompt_acknowledged \/ proceed)

\* The user answers the prompt. Yes is remembered and the item goes on;
\* No ends the item as a failure and remembers nothing.
AnswerPrompt ==
    /\ pc = "prompt"
    /\ \E proceed \in BOOLEAN :
         /\ prompt_log' = Append(prompt_log,
                                 [slot |-> pending[pos].slot,
                                  prompted |-> TRUE, answer |-> proceed])
         /\ AcknowledgePrompt(proceed)
         /\ IF proceed
            THEN /\ pc' = "manual_item"
                 /\ UNCHANGED <<final_results, pos, skip_event, skip_at,
                                skip_leaked>>
            ELSE /\ ManualStore(
                      DownloadResult(
                         tasks[pending[pos].slot].reference, FALSE,
                         _append_manual_note(pending[pos].previous.message,
                                             "Manual fallback skipped by user"),
                         NoPath, NoPath),
                      FALSE)
    /\ UNCHANGED <<references, tasks, retry_candidates, pending,
                   manual_retry_var, downloader, dest_files, error_message,
                   results, phase1_results, attempts>>
    /\ UNCHANGED <<detVars, textVars, doiVars>>
    /\ UNCHANGED aggVars

\* _perform_manual_download once the user agreed: the browser tab may not
\* open; the wait may be skipped, time out, or find a file that is empty or
\* cannot be moved (that OSError is caught here); otherwise the file is
\* moved to the deduplicated destination.
perform_manual_download(task, previous_message, files, skip) ==
    LET reference == task.reference
        failed(previous, note, skipped) ==
            Returned(DownloadResult(reference, FALSE,
                                    _append_manual_note(previous, note),
                                    NoPath, NoPath),
                     NoPath, skipped)
        noted(auto_notes) ==
            IF auto_notes # "" THEN _append_manual_note(previous_message, auto_notes)
            ELSE previous_message
        moved(title) ==
            LET sanitized == IF title # "" THEN _sanitize_filename(title) ELSE ""
                preferred_name == IF sanitized # "" THEN sanitized
                                  ELSE task.output_name
                stem == _dedupe_path(preferred_name, ".pdf", files)
            IN Returned(DownloadResult(reference, TRUE, "Downloaded manually",
                                       stem \o ".pdf", stem),
                        stem \o ".pdf", FALSE)
    IN {failed(previous_message, "Could not open browser (no browser)", FALSE)}
       \cup UNION { (IF skip
                     THEN {failed(noted(a), "Skipped during manual fallback", TRUE)}
                     ELSE {})
                    \cup {failed(noted(a), m, FALSE) : m \in ManualFailures}
                    : a \in AutoNotes }
       \cup {moved(t) : t \in ResultTitles}

\* The manual item returns and the loop stores its result.
ManualReturn ==
    /\ pc = "manual_item"
    /\ \E out \in perform_manual_download(tasks[pending[pos].slot],
                                          pending[pos].previous.message,
                                          dest_files, skip_event) :
         /\ ManualStore(out.result, out.skipped)
         /\ dest_files' = IF out.moved # NoPath
                          THEN dest_files \cup {out.moved} ELSE dest_files
    /\ UNCHANGED <<references, tasks, retry_candidates, pending,
                   manual_retry_var, manual_prompt_acknowledged, downloader,
                   error_message, results,
                   phase1_results, attempts, prompt_log>>
    /\ UNCHANGED <<detVars, textVars, doiVars>>
    /\ UNCHANGED aggVars

\* The manual loop is through.
ManualEnd ==
    /\ pc = "manual"
    /\ pos > Len(pending)
    /\ pc' = "finally"
    /\ UNCHANGED <<references, tasks, final_results, retry_candidates, pending,
                   pos, skip_event, manual_retry_var, manual_prompt_acknowledged,
                   downloader, dest_files, error_message, results>>
    /\ UNCHANGED obsVars
    /\ UNCHANGED <<detVars, textVars, doiVars>>
    /\ UNCHANGED aggVars

\* ------------------------------------------------- except, finally, end
\* except Exception: every slot still empty becomes a failure carrying the
\* exception's text.
ExceptHandler ==
    /\ pc = "except"
    /\ final_results' =
          IF Len(final_results) = 0
          THEN <<DownloadResult("Initialization", FALSE, error_message,
                                NoPath, NoPath)>>
          ELSE [k \in 1..Len(final_results) |->
                  IF final_results[k] # None THEN final_results[k]
                  ELSE DownloadResult(tasks[k].reference, FALSE, error_message,
                                      NoPath, NoPath)]
    /\ pc' = "finally"
    /\ UNCHANGED <<references, tasks, retry_candidates, pending, pos,
                   skip_event, manual_retry_var, manual_prompt_acknowledged,
                   downloader, dest_files, error_message, results>>
    /\ UNCHANGED obsVars
    /\ UNCHANGED <<detVars, textVars, doiVars>>
    /\ UNCHANGED aggVars

\* PDFDownloader.close: driver.quit(); an exception it raises is swallowed,
\* so close always returns to its caller.
close(session) == "closed"

\* finally: the session self.downloader holds, if any, is closed (the
\* temporary folder is then removed, errors ignored). A session that
\* self.downloader does not hold is not touched.
Finally ==
    /\ pc = "finally"
    /\ downloader' = IF downloader = "open" THEN close(downloader)
                     ELSE downloader
    /\ pc' = "aggregate"
    /\ UNCHANGED <<references, tasks, final_results, retry_candidates, pending,
                   pos, skip_event, manual_retry_var, manual_prompt_acknowledged,
                   dest_files, error_message, results>>
    /\ UNCHANGED obsVars
    /\ UNCHANGED <<detVars, textVars, doiVars>>
    /\ UNCHANGED aggVars

Min(a, b) == IF a <= b THEN a ELSE b

\* Variant: every failed result is listed, a duplicate's too.
UniqueFailures_WithDuplicates(task_list, result_list) ==
    SelectSeq([k \in 1..Min(Len(task_list), Len(result_list)) |-> k],
              LAMBDA k : ~result_list[k].success)

\* The loop over zip(tasks, results) that fills unique_failures: the
\* failures of tasks that are no duplicates, in index order. Each is kept
\* here as the slot of its result.
UniqueFailures(task_list, result_list) ==
    SelectSeq([k \in 1..Min(Len(task_list), Len(result_list)) |-> k],
              LAMBDA k : /\ ~result_list[k].success
                         /\ task_list[k].duplicate_of = NoDup)

\* create_failure_report: nothing for an empty list; else the report is
\* written under a name no file of the destination has.
create_failure_report(files, failures) ==
    IF Len(failures) = 0 THEN NoPath
    ELSE _dedupe_path("missing_pdfs", ".txt", files) \o ".txt"

\* The outcomes of stitch_pdfs on a destination holding files:
\* the path of the merged PDF, the message, and the files it leaves. No
\* existing PDF gives (None, None); without PyPDF2, and when the
\* destination cannot be prepared, only a message is returned; else the
\* merged PDF is written under a name no file of the destination has, or
\* the merge fails, and the file it began is removed unless the unlink
\* fails too.
stitch_pdfs(pdf_files, files, available) ==
    LET valid_files == SelectSeq(pdf_files, LAMBDA path : path \in files)
        outcome(path, message, left) ==
            [path |-> path, message |-> message, files |-> left]
        merged_path ==
            _dedupe_path("combined_references", ".pdf", files) \o ".pdf"
    IN IF Len(valid_files) = 0 THEN { outcome(NoPath, "", files) }
       ELSE IF ~available
       THEN { outcome(NoPath, "Install PyPDF2 to enable combined PDF output.",
                      files) }
       ELSE { outcome(NoPath,
                      "Failed to prepare destination for combined PDF "
                      \o "([Errno 13] Permission denied)", files),
              outcome(merged_path, "", files \cup {merged_path}),
              outcome(NoPath,
                      "Failed to create combined PDF ([Errno 28] No space left)",
                      files),
              outcome(NoPath,
                      "Failed to create combined PDF ([Errno 28] No space left)",
                      files \cup {merged_path}) }

\* sum(1 for r in results if r.success)
RECURSIVE SuccessCount(_)
SuccessCount(result_list) ==
    IF result_list = <<>> THEN 0
    ELSE (IF Head(result_list).success THEN 1 ELSE 0)
         + SuccessCount(Tail(result_list))

\* The destinations of the successes, the input of stitch_pdfs.
SuccessPaths(result_list) ==
    LET successes == SelectSeq(result_list,
                               LAMBDA r : r.success /\ r.destination # NoPath)
    IN [n \in 1..Len(successes) |-> successes[n].destination]

\* What the summary lines say: the count of successes, one line per listed
\* failure, and the notes on the merged PDF and on the report.
Summary(result_list, failures, merged, message, report) ==
    [ downloaded |-> SuccessCount(result_list),
      failures |-> [n \in 1..Len(failures) |->
                      <<result_list[failures[n]].target,
                        result_list[failures[n]].message>>],
      combined_path |-> merged,
      combine_message |-> IF merged # NoPath THEN "" ELSE message,
      report_path |-> report ]

\* Whether PyPDF2 is installed is fixed when the module is imported and
\* read by stitch_pdfs only: it is chosen at the first reading.
MergerChoices ==
    IF PDF_MERGER_AVAILABLE = "unknown" THEN { "yes", "no" }
    ELSE { PDF_MERGER_AVAILABLE }

\* The aggregation after the phases: the result list is taken from the
\* slots, the failures to list are collected, the merged PDF and then the
\* report are written, and the summary is handed to _finish.
Aggregate ==
    /\ pc = "aggregate"
    /\ results' =
          IF Len(final_results) > 0
             /\ \A k \in 1..Len(final_results) : final_results[k] # None
          THEN final_results
          ELSE <<DownloadResult("Initialization", FALSE,
                                "Downloader did not start", NoPath, NoPath)>>
    /\ unique_failures' = UniqueFailures(tasks, results')
    /\ \E available \in MergerChoices :
          /\ PDF_MERGER_AVAILABLE' = available
          /\ \E stitched \in stitch_pdfs(SuccessPaths(results'), dest_files,
                                         available = "yes") :
                /\ combined_path' = stitched.path
                /\ combine_message' = stitched.message
                /\ report_path' = create_failure_report(stitched.files,
                                                        unique_failures')
                /\ dest_files' = IF report_path' # NoPath
                                 THEN stitched.files \cup {report_path'}
                                 ELSE stitched.files
    /\ summaries' = Append(summaries,
                           Summary(results', unique_failures', combined_path',
                                   combine_message', report_path'))
    /\ pc' = "done"
    /\ UNCHANGED <<references, tasks, final_results, retry_candidates, pending,
                   pos, skip_event, manual_retry_var, manual_prompt_acknowledged,
                   downloader, error_message>>
    /\ UNCHANGED obsVars
    /\ UNCHANGED <<detVars, textVars, doiVars>>

\* The aggregation is run once more on the final results as they are, with
\* the destination as the aggregation before left it.
AggregateAgain ==
    /\ pc = "done"
    /\ Len(summaries) < MaxAggregations
    /\ pc' = "aggregate"
    /\ UNCHANGED <<references, tasks, final_results, retry_candidates, pending,
                   pos, skip_event, manual_retry_var, manual_prompt_acknowledged,
                   downloader, dest_files, error_message, results>>
    /\ UNCHANGED aggVars
    /\ UNCHANGED obsVars
    /\ UNCHANGED <<detVars, textVars, doiVars>>

\* ============================================================ detectors
\* --------------------------------------------------------------- bounds
\* Largest file size, in blocks, the watched folder reaches.
MaxSize == 2
\* Seconds of the detector's timeout (one sleep of the poll loop each).
MaxPolls == 2
\* Seconds of CHALLENGE_TIMEOUT (one sleep of the gate's loop each).
MaxChallenge == 2
\* Seconds counted while the verification dialog stays open.
MaxNotify == 2

\* -------------------------------------------------------------- values
\* The names a watched folder can hold: a file from before the call, the
\* file the browser saves, and that file under Firefox's in-progress name.
FileNames == { "old.pdf", "paper.pdf", "paper.pdf.part" }
\* A name that is not in the folder.
Absent == -1
Sizes == 0..MaxSize

\* candidate.suffix.lower() == ".pdf"
HasPdfSuffix(name) == name \in { "old.pdf", "paper.pdf" }
\* candidate.name.endswith(".part")
EndsWithPart(name) == name = "paper.pdf.part"

\* {p for p in download_dir.iterdir() if p.is_file()}
ListFiles(dir) == { n \in FileNames : dir[n] # Absent }
\* download_dir.glob("*.pdf")
GlobPdf(dir) == { n \in ListFiles(dir) : HasPdfSuffix(n) }

NoFiles == [n \in FileNames |-> Absent]

\* The task the modelled call of download works on.
DetTask ==
    ReferenceTask(1, [text |-> "Jones K. Title Two. 2019"], "Jones_K", NoDup)

\* Everything of the orchestrator a call leaves alone.
orchRest == <<pc, references, tasks, final_results, retry_candidates, pending,
              pos, manual_retry_var, manual_prompt_acknowledged, downloader,
              error_message, results, unique_failures, report_path,
              PDF_MERGER_AVAILABLE, combined_path, combine_message,
              summaries>>

PollingPcs == { "poll", "list", "sleep", "m_poll", "m_scan", "m_sleep" }
EndPcs == { "returned", "raised", "skipped" }
\* Inside _handle_challenge, once it has found a marker.
GatePcs == { "g_notify", "g_loop", "g_sleep" }

\* No call is modelled: the values the orchestrator's specification keeps.
DetIdle ==
    /\ det_mode = "none"
    /\ det_pc = "none"
    /\ folder = NoFiles
    /\ existing_files = {}
    /\ elapsed = 0
    /\ downloaded = NoPath
    /\ det_result = None
    /\ size_tracker = NoFiles
    /\ stable_counts = NoFiles
    /\ seen_sizes = NoFiles
    /\ seen_stable = FALSE
    /\ skip_in_poll = FALSE
    /\ leftover = "none"
    /\ challenge = FALSE
    /\ gate = "none"
    /\ challenged = FALSE
    /\ skip_in_gate = FALSE
    /\ notify_wait = 0

\* A call is about to start, on a folder with any content. With followed
\* set, a file the folder holds under the in-progress name (the download
\* an earlier call left unfinished) is followed through the call.
DetStart(followed) ==
    /\ det_mode \in { "auto", "manual" }
    /\ det_pc = "start"
    /\ folder \in [FileNames -> Sizes \cup {Absent}]
    /\ existing_files = {}
    /\ elapsed = 0
    /\ downloaded = NoPath
    /\ det_result = None
    /\ size_tracker = NoFiles
    /\ stable_counts = NoFiles
    /\ seen_sizes = NoFiles
    /\ seen_stable = FALSE
    /\ skip_in_poll = FALSE
    /\ leftover = IF followed /\ folder["paper.pdf.part"] # Absent
                  THEN "part" ELSE "none"
    /\ challenge = FALSE
    /\ gate = "none"
    /\ challenged = FALSE
    /\ skip_in_gate = FALSE
    /\ notify_wait = 0

DetInit == DetStart(FALSE)

\* The call starts while the download of an earlier call is unfinished.
DetInitLeftover ==
    /\ DetStart(TRUE)
    /\ folder["paper.pdf.part"] # Absent

\* The name the unfinished download of before the call has now.
LeftoverName(where) ==
    CASE where = "part" -> "paper.pdf.part"
      [] where = "pdf" -> "paper.pdf"
      [] OTHER -> NoPath

\* ------------------------------------------------------ the environment
\* The browser (or the user) creates a file, writes more of it, deletes
\* it, or gives a finished download its final name, while a call runs.
\* _handle_challenge never looks at the folder: what happens to the
\* folder during its wait is taken as happening right before or after.
FolderChanges ==
    /\ det_pc \notin EndPcs \cup GatePcs
    /\ \/ \E n \in FileNames :
            \/ /\ folder[n] = Absent
               /\ folder' = [folder EXCEPT ![n] = 0]
               /\ UNCHANGED leftover
            \/ /\ folder[n] # Absent
               /\ folder[n] < MaxSize
               /\ folder' = [folder EXCEPT ![n] = @ + 1]
               /\ UNCHANGED leftover
            \/ /\ folder[n] # Absent
               /\ folder' = [folder EXCEPT ![n] = Absent]
               /\ leftover' = IF LeftoverName(leftover) = n THEN "none"
                              ELSE leftover
       \/ /\ folder["paper.pdf.part"] # Absent
          /\ folder["paper.pdf"] = Absent
          /\ folder' = [folder EXCEPT !["paper.pdf"] = folder["paper.pdf.part"],
                                      !["paper.pdf.part"] = Absent]
          /\ leftover' = IF leftover = "part" THEN "pdf" ELSE leftover
    /\ UNCHANGED <<det_mode, det_pc, existing_files, elapsed, downloaded,
                   det_result, size_tracker, stable_counts,
                   seen_sizes, seen_stable, skip_in_poll>>
    /\ UNCHANGED <<orchVars, obsVars, textVars, doiVars>>
    /\ UNCHANGED gateVars

\* App._request_skip while the call runs.
DetRequestSkip ==
    /\ det_pc \notin EndPcs
    /\ skip_event' = TRUE
    /\ skip_in_poll' = (skip_in_poll \/ det_pc \in PollingPcs)
    /\ skip_in_gate' = (skip_in_gate \/ det_pc \in GatePcs)
    /\ UNCHANGED <<det_mode, det_pc, folder, existing_files, elapsed, downloaded,
                   det_result, size_tracker, stable_counts,
                   seen_sizes, seen_stable, leftover>>
    /\ UNCHANGED <<challenge, gate, challenged, notify_wait>>
    /\ UNCHANGED <<orchRest, dest_files, obsVars, textVars, doiVars>>

\* ------------------------------------------- PDFDownloader.download
detFrame == <<det_mode, folder, existing_files, elapsed, downloaded,
              size_tracker, stable_counts, seen_sizes, seen_stable,
              skip_in_poll, leftover>>

\* return DownloadResult(reference, False, message)
DlFail(message) ==
    /\ det_result' = DownloadResult(DetTask.reference, FALSE, message,
                                    NoPath, NoPath)
    /\ det_pc' = "returned"

DlGoto(next) ==
    /\ det_pc' = next
    /\ UNCHANGED det_result

\* The first line of download: the snapshot of the session folder.
DlSnapshot ==
    /\ det_mode = "auto"
    /\ det_pc = "start"
    /\ existing_files' = ListFiles(folder)
    /\ DlGoto("search")
    /\ UNCHANGED <<det_mode, folder, elapsed, downloaded, size_tracker,
                   stable_counts, seen_sizes, seen_stable, skip_in_poll, leftover>>
    /\ UNCHANGED <<orchVars, obsVars, textVars, doiVars>>
    /\ UNCHANGED gateVars

\* Where the call goes on when the gate of a stage lets it pass.
GateContinuation(stage) ==
    CASE stage = "before_box" -> "box"
      [] stage = "after_submit" -> "first_result"
      [] stage = "before_results" -> "locate"

\* What download makes of the TimeoutException the gate raises: inside
\* _search_reference it is caught as a WebDriverException, inside
\* _get_first_result as a TimeoutException.
GateTimeout(stage) ==
    IF stage = "before_results"
    THEN "No Google Scholar results were found"
    ELSE "Failed to open Google Scholar: Message: Verification challenge "
         \o "was not cleared in time"

\* _handle_challenge, its first test, on the page just loaded: without a
\* marker it returns at once, with one it notifies the UI.
EnterGate(stage, marker) ==
    /\ challenge' = marker
    /\ IF marker
       THEN /\ det_pc' = "g_notify"
            /\ gate' = stage
       ELSE /\ det_pc' = GateContinuation(stage)
            /\ gate' = gate
    /\ UNCHANGED det_result

gateFrame == <<det_mode, folder, existing_files, downloaded, size_tracker,
               stable_counts, seen_sizes, seen_stable, skip_in_poll, leftover>>

\* _search_reference, first half: Scholar is loaded, and the gate looks at
\* the page; or the load fails.
DlOpenScholar ==
    /\ det_mode = "auto"
    /\ det_pc = "search"
    /\ \/ /\ DlFail("Failed to open Google Scholar: Message: timeout")
          /\ UNCHANGED <<challenge, gate>>
       \/ \E marker \in BOOLEAN : EnterGate("before_box", marker)
    /\ UNCHANGED <<gateFrame, elapsed, challenged, skip_in_gate, notify_wait>>
    /\ UNCHANGED <<orchVars, obsVars, textVars, doiVars>>

\* _search_reference, second half: the search box is located (its first
\* step is a skip check) and the query submitted; the gate looks at the
\* page that comes back.
DlSubmitQuery ==
    /\ det_mode = "auto"
    /\ det_pc = "box"
    /\ IF skip_event
       THEN /\ DlFail("Skipped by user")
            /\ UNCHANGED <<challenge, gate>>
       ELSE \/ /\ DlFail("Failed to open Google Scholar: Message: timeout")
               /\ UNCHANGED <<challenge, gate>>
            \/ \E marker \in BOOLEAN : EnterGate("after_submit", marker)
    /\ UNCHANGED <<gateFrame, elapsed, challenged, skip_in_gate, notify_wait>>
    /\ UNCHANGED <<orchVars, obsVars, textVars, doiVars>>

\* _get_first_result, the head of its loop: a skip check, then the gate.
DlGetFirstResult ==
    /\ det_mode = "auto"
    /\ det_pc = "first_result"
    /\ IF skip_event
       THEN /\ DlFail("Skipped by user")
            /\ UNCHANGED <<challenge, gate>>
       ELSE \E marker \in BOOLEAN : EnterGate("before_results", marker)
    /\ UNCHANGED <<gateFrame, elapsed, challenged, skip_in_gate, notify_wait>>
    /\ UNCHANGED <<orchVars, obsVars, textVars, doiVars>>

\* _get_first_result, the wait of one iteration: the first step of
\* _locate_first_result is a skip check; then a result block is found, or
\* the ten seconds pass (and the loop goes round, or its minute is over),
\* or selenium fails in a way no except clause of download names.
DlLocateFirstResult ==
    /\ det_mode = "auto"
    /\ det_pc = "locate"
    /\ IF skip_event
       THEN DlFail("Skipped by user")
       ELSE \/ DlGoto("inspect")
            \/ DlGoto("first_result")
            \/ DlFail("No Google Scholar results were found")
            \/ DlGoto("raised")
    /\ UNCHANGED detFrame
    /\ UNCHANGED <<orchVars, obsVars, textVars, doiVars>>
    /\ UNCHANGED gateVars

\* ------------------------------------------------ _handle_challenge
\* App._prompt_challenge returns once the user has closed the dialog; the
\* gate then sets its deadline.
GateDismiss ==
    /\ det_pc = "g_notify"
    /\ det_pc' = "g_loop"
    /\ elapsed' = 0
    /\ notify_wait' = 0
    /\ UNCHANGED <<gateFrame, det_result, challenge, gate, challenged,
                   skip_in_gate>>
    /\ UNCHANGED <<orchVars, obsVars, textVars, doiVars>>

\* A second passes with the dialog open and a skip requested since the
\* gate found the marker: event.wait() has no timeout and looks at no flag.
NotifyTick ==
    /\ det_pc = "g_notify"
    /\ skip_in_gate
    /\ notify_wait < MaxNotify
    /\ notify_wait' = notify_wait + 1
    /\ UNCHANGED <<gateFrame, det_pc, det_result, elapsed, challenge, gate,
                   challenged, skip_in_gate>>
    /\ UNCHANGED <<orchVars, obsVars, textVars, doiVars>>

\* The user solves the challenge. The deadline test of the loop follows
\* the last look at the page at once, so nothing changes in between.
ChallengeCleared ==
    /\ det_pc \in GatePcs
    /\ ~(det_pc = "g_loop" /\ ~(elapsed < MaxChallenge))
    /\ challenge
    /\ challenge' = FALSE
    /\ UNCHANGED <<gateFrame, det_pc, det_result, elapsed, gate, challenged,
                   skip_in_gate, notify_wait>>
    /\ UNCHANGED <<orchVars, obsVars, textVars, doiVars>>

\* The head of the gate's loop: past the deadline TimeoutException is
\* raised; else _check_skip.
GateLoop ==
    /\ det_pc = "g_loop"
    /\ IF ~(elapsed < MaxChallenge)
       THEN DlFail(GateTimeout(gate))
       ELSE IF skip_event
       THEN DlFail("Skipped by user")
       ELSE DlGoto("g_sleep")
    /\ UNCHANGED <<gateFrame, elapsed>>
    /\ UNCHANGED gateVars
    /\ UNCHANGED <<orchVars, obsVars, textVars, doiVars>>

\* Variant: the loop sleeps without looking at the page again.
GateSleep_NeverLooks ==
    /\ det_pc = "g_sleep"
    /\ det_pc' = "g_loop"
    /\ elapsed' = elapsed + 1
    /\ UNCHANGED <<gate, challenged>>
    /\ UNCHANGED <<gateFrame, det_result, challenge, skip_in_gate, notify_wait>>
    /\ UNCHANGED <<orchVars, obsVars, textVars, doiVars>>

\* time.sleep(1), then the page is looked at: without a marker the gate
\* returns and the call goes on.
GateSleep ==
    /\ det_pc = "g_sleep"
    /\ IF ~challenge
       THEN /\ det_pc' = GateContinuation(gate)
            /\ gate' = "none"
            /\ challenged' = TRUE
            /\ elapsed' = 0
       ELSE /\ det_pc' = "g_loop"
            /\ elapsed' = elapsed + 1
            /\ UNCHANGED <<gate, challenged>>
    /\ UNCHANGED <<gateFrame, det_result, challenge, skip_in_gate, notify_wait>>
    /\ UNCHANGED <<orchVars, obsVars, textVars, doiVars>>

\* _extract_pdf_link: a link beside the result, none, or a selenium error.
DlExtractPdfLink ==
    /\ det_mode = "auto"
    /\ det_pc = "inspect"
    /\ \/ DlGoto("trigger")
       \/ DlGoto("article")
       \/ DlFail("Unable to inspect the first result: Message: stale element")
    /\ UNCHANGED detFrame
    /\ UNCHANGED <<orchVars, obsVars, textVars, doiVars>>
    /\ UNCHANGED gateVars

\* No link beside the result: the article page is opened and searched.
DlFollowArticle ==
    /\ det_mode = "auto"
    /\ det_pc = "article"
    /\ \/ DlFail("First result is missing an article link to follow")
       \/ IF skip_event
          THEN DlFail("Skipped by user")
          ELSE \/ DlFail("Could not locate a PDF link on the article page")
               \/ DlGoto("trigger")
    /\ UNCHANGED detFrame
    /\ UNCHANGED <<orchVars, obsVars, textVars, doiVars>>
    /\ UNCHANGED gateVars

\* The click on the PDF link; then _wait_for_new_file sets its deadline.
DlTrigger ==
    /\ det_mode = "auto"
    /\ det_pc = "trigger"
    /\ \/ /\ DlGoto("poll")
          /\ elapsed' = 0
       \/ /\ DlFail("Failed to trigger PDF download: Message: not clickable")
          /\ UNCHANGED elapsed
    /\ UNCHANGED <<det_mode, folder, existing_files, downloaded, size_tracker,
                   stable_counts, seen_sizes, seen_stable, skip_in_poll, leftover>>
    /\ UNCHANGED <<orchVars, obsVars, textVars, doiVars>>
    /\ UNCHANGED gateVars

\* Variant: the skip flag is looked at before the deadline.
DlPollEnter_SkipFirst ==
    /\ det_mode = "auto"
    /\ det_pc = "poll"
    /\ IF skip_event
       THEN DlFail("Skipped by user")
       ELSE IF ~(elapsed < MaxPolls)
       THEN DlFail("Download did not complete in time")
       ELSE DlGoto("list")
    /\ UNCHANGED detFrame
    /\ UNCHANGED <<orchVars, obsVars, textVars, doiVars>>
    /\ UNCHANGED gateVars

\* _wait_for_new_file, the loop head: past the deadline the detector
\* returns None and download reports the timeout; else _check_skip.
DlPollEnter ==
    /\ det_mode = "auto"
    /\ det_pc = "poll"
    /\ IF ~(elapsed < MaxPolls)
       THEN DlFail("Download did not complete in time")
       ELSE IF skip_event
       THEN DlFail("Skipped by user")
       ELSE DlGoto("list")
    /\ UNCHANGED detFrame
    /\ UNCHANGED <<orchVars, obsVars, textVars, doiVars>>
    /\ UNCHANGED gateVars

\* Variant: the listing is not compared with the snapshot.
NewPdfFiles_IgnoresSnapshot(current_files, snapshot) ==
    { candidate \in current_files :
        HasPdfSuffix(candidate) /\ ~EndsWithPart(candidate) }

\* The files _wait_for_new_file may return at one poll: the new ones with
\* a .pdf suffix whose name does not end in .part.
NewPdfFiles(current_files, snapshot) ==
    { candidate \in current_files \ snapshot :
        HasPdfSuffix(candidate) /\ ~EndsWithPart(candidate) }

\* _wait_for_new_file, one listing: any new PDF is returned at once,
\* otherwise the loop sleeps.
DlPollList ==
    /\ det_mode = "auto"
    /\ det_pc = "list"
    /\ LET new_pdfs == NewPdfFiles(ListFiles(folder), existing_files)
       IN /\ IF new_pdfs = {}
             THEN /\ DlGoto("sleep")
                  /\ UNCHANGED <<downloaded, seen_stable>>
             ELSE \E candidate \in new_pdfs :
                    /\ downloaded' = candidate
                    /\ seen_stable' = (seen_sizes[candidate] = folder[candidate])
                    /\ DlGoto("stat")
          /\ seen_sizes' = [n \in FileNames |->
                              IF n \in new_pdfs THEN folder[n] ELSE Absent]
    /\ UNCHANGED <<det_mode, folder, existing_files, elapsed, size_tracker,
                   stable_counts, skip_in_poll, leftover>>
    /\ UNCHANGED <<orchVars, obsVars, textVars, doiVars>>
    /\ UNCHANGED gateVars

\* time.sleep(1)
DlPollSleep ==
    /\ det_mode = "auto"
    /\ det_pc = "sleep"
    /\ elapsed' = elapsed + 1
    /\ DlGoto("poll")
    /\ UNCHANGED <<det_mode, folder, existing_files, downloaded, size_tracker,
                   stable_counts, seen_sizes, seen_stable, skip_in_poll, leftover>>
    /\ UNCHANGED <<orchVars, obsVars, textVars, doiVars>>
    /\ UNCHANGED gateVars

\* Variant: the size of the file is not looked at.
DlStat_AnySize ==
    /\ det_mode = "auto"
    /\ det_pc = "stat"
    /\ IF folder[downloaded] = Absent
       THEN DlFail("Could not read downloaded PDF ([Errno 2] No such file)")
       ELSE DlGoto("move")
    /\ UNCHANGED folder
    /\ UNCHANGED <<det_mode, existing_files, elapsed, downloaded, size_tracker,
                   stable_counts, seen_sizes, seen_stable, skip_in_poll, leftover>>
    /\ UNCHANGED <<orchVars, obsVars, textVars, doiVars>>
    /\ UNCHANGED gateVars

\* downloaded.stat(): a vanished file cannot be read; an empty one is
\* unlinked, and an OSError of the unlink (the browser still holds the
\* file) is passed over, which leaves the file; both end the attempt as a
\* failure.
DlStat ==
    /\ det_mode = "auto"
    /\ det_pc = "stat"
    /\ IF folder[downloaded] = Absent
       THEN /\ DlFail("Could not read downloaded PDF ([Errno 2] No such file)")
            /\ UNCHANGED folder
       ELSE IF folder[downloaded] = 0
       THEN /\ DlFail("Downloaded PDF was empty")
            /\ \/ folder' = [folder EXCEPT ![downloaded] = Absent]
               \/ UNCHANGED folder
       ELSE /\ DlGoto("move")
            /\ UNCHANGED folder
    /\ UNCHANGED <<det_mode, existing_files, elapsed, downloaded, size_tracker,
                   stable_counts, seen_sizes, seen_stable, skip_in_poll, leftover>>
    /\ UNCHANGED <<orchVars, obsVars, textVars, doiVars>>
    /\ UNCHANGED gateVars

\* shutil.move to the deduplicated destination, outside any try: it moves
\* the file and download returns the success, or its OSError leaves
\* download.
DlMove ==
    /\ det_mode = "auto"
    /\ det_pc = "move"
    /\ \/ /\ folder[downloaded] # Absent
          /\ \E result_title \in ResultTitles :
               LET sanitized_title == IF result_title # ""
                                      THEN _sanitize_filename(result_title) ELSE ""
                   final_name == IF sanitized_title # "" THEN sanitized_title
                                 ELSE DetTask.output_name
                   stem == _dedupe_path(final_name, ".pdf", dest_files)
               IN /\ det_result' = DownloadResult(DetTask.reference, TRUE,
                                                  "Downloaded", stem \o ".pdf", stem)
                  /\ dest_files' = dest_files \cup {stem \o ".pdf"}
          /\ folder' = [folder EXCEPT ![downloaded] = Absent]
          /\ det_pc' = "returned"
       \/ /\ DlGoto("raised")
          /\ UNCHANGED <<folder, dest_files>>
    /\ UNCHANGED <<det_mode, existing_files, elapsed, downloaded, size_tracker,
                   stable_counts, seen_sizes, seen_stable, skip_in_poll, leftover>>
    /\ UNCHANGED <<orchRest, skip_event, obsVars, textVars, doiVars>>
    /\ UNCHANGED gateVars

\* ------------------------------------------------ wait_for_manual_pdf
\* The orders in which one glob can yield the PDFs of the folder.
Orders(files) ==
    { order \in [1..Cardinality(files) -> files] :
        \A a, b \in 1..Cardinality(files) : order[a] = order[b] => a = b }

\* The for-loop of one poll over the globbed files, from position k: a file
\* of the snapshot is passed over; any other has its size compared with
\* the size tracked at the poll before, and is returned once it has been
\* found unchanged.
RECURSIVE ScanPdfs(_, _, _, _, _, _)
ScanPdfs(order, k, dir, tracker, counts, snapshot) ==
    IF k > Len(order)
    THEN [found |-> NoPath, tracker |-> tracker, counts |-> counts]
    ELSE
      LET resolved == order[k]
      IN IF resolved \in snapshot
         THEN ScanPdfs(order, k + 1, dir, tracker, counts, snapshot)
         ELSE
           LET size == dir[resolved]
               previous_size == tracker[resolved]
               stable == IF previous_size # Absent /\ size = previous_size
                         THEN (IF counts[resolved] = Absent THEN 0
                               ELSE counts[resolved]) + 1
                         ELSE 0
               tracker2 == [tracker EXCEPT ![resolved] = size]
               counts2 == [counts EXCEPT ![resolved] = stable]
           IN IF stable >= 1
              THEN [found |-> resolved, tracker |-> tracker2, counts |-> counts2]
              ELSE ScanPdfs(order, k + 1, dir, tracker2, counts2, snapshot)

manualFrame == <<det_mode, folder, det_result, seen_sizes, seen_stable,
                 skip_in_poll, leftover>>

\* The message the automated phases left on the result of the task.
DetPrevious ==
    _merge_failure_messages("Download did not complete in time",
                            "Download did not complete in time")

\* return DownloadResult(task.reference, False,
\*                       self._append_manual_note(previous_message, note))
ManualFail(note) ==
    det_result' = DownloadResult(DetTask.reference, FALSE,
                                 _append_manual_note(DetPrevious, note),
                                 NoPath, NoPath)

\* _perform_manual_download snapshots the PDFs of the downloads folder and
\* calls wait_for_manual_pdf, which sets its deadline and empty trackers.
ManualSnapshot ==
    /\ det_mode = "manual"
    /\ det_pc = "start"
    /\ existing_files' = GlobPdf(folder)
    /\ size_tracker' = NoFiles
    /\ stable_counts' = NoFiles
    /\ elapsed' = 0
    /\ det_pc' = "m_poll"
    /\ UNCHANGED downloaded
    /\ UNCHANGED manualFrame
    /\ UNCHANGED <<orchVars, obsVars, textVars, doiVars>>
    /\ UNCHANGED gateVars

\* The loop head: past the deadline None is returned, which ends the item
\* as timed out; a set skip flag raises SkipRequested, which ends it as
\* skipped.
ManualPollEnter ==
    /\ det_mode = "manual"
    /\ det_pc = "m_poll"
    /\ IF ~(elapsed < MaxPolls)
       THEN /\ det_pc' = "returned"
            /\ ManualFail("Manual fallback timed out")
       ELSE IF skip_event
       THEN /\ det_pc' = "skipped"
            /\ ManualFail("Skipped during manual fallback")
       ELSE /\ det_pc' = "m_scan"
            /\ UNCHANGED det_result
    /\ UNCHANGED <<existing_files, size_tracker, stable_counts, elapsed,
                   downloaded>>
    /\ UNCHANGED <<det_mode, folder, seen_sizes, seen_stable, skip_in_poll, leftover>>
    /\ UNCHANGED <<orchVars, obsVars, textVars, doiVars>>
    /\ UNCHANGED gateVars

\* Variant: a PDF is returned at the poll that first sees it.
ManualScan_FirstSight ==
    /\ det_mode = "manual"
    /\ det_pc = "m_scan"
    /\ LET fresh == GlobPdf(folder) \ existing_files
       IN IF fresh = {}
          THEN /\ det_pc' = "m_sleep"
               /\ UNCHANGED downloaded
          ELSE /\ det_pc' = "m_stat"
               /\ \E resolved \in fresh : downloaded' = resolved
    /\ UNCHANGED <<existing_files, elapsed, size_tracker, stable_counts>>
    /\ UNCHANGED manualFrame
    /\ UNCHANGED <<orchVars, obsVars, textVars, doiVars>>
    /\ UNCHANGED gateVars

\* One poll over the folder's PDFs; a file found unchanged is returned to
\* _perform_manual_download.
ManualScan ==
    /\ det_mode = "manual"
    /\ det_pc = "m_scan"
    /\ \E order \in Orders(GlobPdf(folder)) :
         LET scan == ScanPdfs(order, 1, folder, size_tracker, stable_counts,
                              existing_files)
         IN /\ size_tracker' = scan.tracker
            /\ stable_counts' = scan.counts
            /\ downloaded' = scan.found
            /\ seen_stable' = /\ scan.found # NoPath
                              /\ seen_sizes[scan.found] = folder[scan.found]
            /\ det_pc' = IF scan.found # NoPath THEN "m_stat" ELSE "m_sleep"
    /\ seen_sizes' = [n \in FileNames |->
                        IF n \in GlobPdf(folder) \ existing_files
                        THEN folder[n] ELSE Absent]
    /\ UNCHANGED <<existing_files, elapsed>>
    /\ UNCHANGED <<det_mode, folder, det_result, skip_in_poll, leftover>>
    /\ UNCHANGED <<orchVars, obsVars, textVars, doiVars>>
    /\ UNCHANGED gateVars

\* time.sleep(1)
ManualSleep ==
    /\ det_mode = "manual"
    /\ det_pc = "m_sleep"
    /\ elapsed' = elapsed + 1
    /\ det_pc' = "m_poll"
    /\ UNCHANGED <<existing_files, size_tracker, stable_counts, downloaded>>
    /\ UNCHANGED manualFrame
    /\ UNCHANGED <<orchVars, obsVars, textVars, doiVars>>
    /\ UNCHANGED gateVars

\* manual_file.stat(): a vanished file cannot be read; an empty one is
\* unlinked, and an OSError of the unlink is passed over, which leaves the
\* file; both end the item as a failure.
ManualStat ==
    /\ det_mode = "manual"
    /\ det_pc = "m_stat"
    /\ IF folder[downloaded] = Absent
       THEN /\ det_pc' = "returned"
            /\ ManualFail("Manual download could not be read "
                          \o "([Errno 2] No such file)")
            /\ UNCHANGED folder
       ELSE IF folder[downloaded] = 0
       THEN /\ det_pc' = "returned"
            /\ ManualFail("Manual download appeared empty")
            /\ \/ folder' = [folder EXCEPT ![downloaded] = Absent]
               \/ UNCHANGED folder
       ELSE /\ det_pc' = "m_move"
            /\ UNCHANGED <<det_result, folder>>
    /\ UNCHANGED <<det_mode, existing_files, elapsed, downloaded, size_tracker,
                   stable_counts, seen_sizes, seen_stable, skip_in_poll, leftover>>
    /\ UNCHANGED <<orchVars, obsVars, textVars, doiVars>>
    /\ UNCHANGED gateVars

\* shutil.move to the deduplicated destination, inside a try: the file is
\* moved and the item succeeds, or the OSError (always, when the file has
\* vanished) ends it as a failure.
ManualMove ==
    /\ det_mode = "manual"
    /\ det_pc = "m_move"
    /\ \/ /\ folder[downloaded] # Absent
          /\ \E target_title \in ResultTitles :
               LET sanitized == IF target_title # ""
                                THEN _sanitize_filename(target_title) ELSE ""
                   preferred_name == IF sanitized # "" THEN sanitized
                                     ELSE DetTask.output_name
                   stem == _dedupe_path(preferred_name, ".pdf", dest_files)
               IN /\ det_result' = DownloadResult(DetTask.reference, TRUE,
                                                  "Downloaded manually",
                                                  stem \o ".pdf", stem)
                  /\ dest_files' = dest_files \cup {stem \o ".pdf"}
          /\ folder' = [folder EXCEPT ![downloaded] = Absent]
       \/ /\ ManualFail("Could not move manual download "
                        \o "([Errno 13] Permission denied)")
          /\ UNCHANGED <<folder, dest_files>>
    /\ det_pc' = "returned"
    /\ UNCHANGED <<det_mode, existing_files, elapsed, downloaded, size_tracker,
                   stable_counts, seen_sizes, seen_stable, skip_in_poll, leftover>>
    /\ UNCHANGED <<orchRest, skip_event, obsVars, textVars, doiVars>>
    /\ UNCHANGED gateVars

\* ------------------------------------------------------- specification
Init == OrchInit /\ DetIdle /\ TextIdle /\ DoiIdle

Next ==
    \/ StartDownload
    \/ RequestSkip
    \/ ToggleManualRetry
    \/ RunSetup
    \/ CreateDownloader
    \/ Phase1Duplicate
    \/ Phase1Call
    \/ Phase1Return
    \/ Phase1End
    \/ Phase2Call
    \/ Phase2Return
    \/ Phase2End
    \/ ManualFallbackOff
    \/ RunManualFallback
    \/ ManualCall
    \/ AnswerPrompt
    \/ ManualReturn
    \/ ManualEnd
    \/ ExceptHandler
    \/ Finally
    \/ Aggregate

Spec == Init /\ [][Next]_vars

\* The steps of the worker thread. The thread is scheduled until it ends,
\* and every attempt it calls returns or raises; the steps of the UI
\* thread (a start or skip request, the checkbox, the answer to a dialog)
\* are the user's and may never come.
WorkerNext ==
    \/ RunSetup
    \/ CreateDownloader
    \/ Phase1Duplicate
    \/ Phase1Call
    \/ Phase1Return
    \/ Phase1End
    \/ Phase2Call
    \/ Phase2Return
    \/ Phase2End
    \/ ManualFallbackOff
    \/ RunManualFallback
    \/ ManualCall
    \/ ManualReturn
    \/ ManualEnd
    \/ ExceptHandler
    \/ Finally
    \/ Aggregate

SpecLive == Init /\ [][Next]_vars /\ WF_vars(WorkerNext)

\* A run whose aggregation is repeated on its final results.
NextAgg ==
    \/ Next
    \/ AggregateAgain

SpecAgg == Init /\ [][NextAgg]_vars

\* One call of download, or of wait_for_manual_pdf, beside the folder's
\* other writers and the UI thread.
InitDet == OrchInit /\ DetInit /\ TextIdle /\ DoiIdle

NextDet ==
    \/ FolderChanges
    \/ DetRequestSkip
    \/ DlSnapshot
    \/ DlOpenScholar
    \/ DlSubmitQuery
    \/ DlGetFirstResult
    \/ DlLocateFirstResult
    \/ GateDismiss
    \/ NotifyTick
    \/ ChallengeCleared
    \/ GateLoop
    \/ GateSleep
    \/ DlExtractPdfLink
    \/ DlFollowArticle
    \/ DlTrigger
    \/ DlPollEnter
    \/ DlPollList
    \/ DlPollSleep
    \/ DlStat
    \/ DlMove
    \/ ManualSnapshot
    \/ ManualPollEnter
    \/ ManualScan
    \/ ManualSleep
    \/ ManualStat
    \/ ManualMove

SpecDet == InitDet /\ [][NextDet]_vars

\* The same calls, started on a folder that holds an unfinished download.
InitLeftover == OrchInit /\ DetInitLeftover /\ TextIdle /\ DoiIdle

SpecLeftover == InitLeftover /\ [][NextDet]_vars

\* ------------------------------------------- the text of a bibliography
\* Whole lines a pasted bibliography is made of.
LinePool ==
    { "",
      "[1] Smith J. Title One. J Sci. 2020;12:1-5. https://doi.org/10.1/abc",
      "Smith J. Title One. 2020. doi:10.1000/abc",
      "2. J. Smith (2020) DOI 10.1000/ABC.",
      "5. doi = {10.1000/abc},",
      "[3] 2020 Report",
      "4 Jones K, Smith J. A study of many things. Nature, 2019; 5: 10-19.",
      "-",
      "see https://doi.org/10.1000/abc.",
      "Jones K. Title Two. 2019" }

\* Texts of one to MaxLines lines of the pool.
PoolTexts ==
    { Join(lines, "\n") :
        lines \in UNION { [1..n -> LinePool] : n \in 1..MaxLines } }

\* The characters short texts are spelt with.
Alphabet == { "1", ".", " ", "a", "\n" }

\* Every text of at most n characters of the alphabet.
RECURSIVE StringsOf(_)
StringsOf(n) ==
    IF n = 0 THEN {""}
    ELSE LET shorter == StringsOf(n - 1)
         IN shorter \cup { s \o c : s \in shorter, c \in Alphabet }

TextInputs == PoolTexts \cup StringsOf(MaxChars)

\* The text box holds a bibliography; nothing runs yet.
InitText ==
    /\ OrchInit
    /\ DetIdle
    /\ text_box \in TextInputs
    /\ text_pc = "input"
    /\ queries = <<>>
    /\ DoiIdle

textRest == <<pc, final_results, retry_candidates, pending, pos, skip_event,
              manual_retry_var, manual_prompt_acknowledged, downloader,
              dest_files, error_message, results, aggVars, obsVars, detVars,
              doiVars>>

\* App.start_download reads the text box: no record, and the run is
\* refused with a warning; otherwise the records go to the worker.
ParseText ==
    /\ text_pc = "input"
    /\ LET parsed == extract_references(text_box)
       IN IF Len(parsed) = 0
          THEN /\ text_pc' = "no_references"
               /\ UNCHANGED references
          ELSE /\ text_pc' = "parsed"
               /\ references' = [i \in 1..Len(parsed) |-> Reference(parsed[i])]
    /\ UNCHANGED <<text_box, queries, tasks, textRest>>

\* The task-building loop of _run_downloads.
BuildTaskList ==
    /\ text_pc = "parsed"
    /\ tasks' = BuildTasks(references, 1, EmptyMap, <<>>)
    /\ text_pc' = "tasks"
    /\ UNCHANGED <<text_box, queries, references, textRest>>

\* The tasks still to search: the ones that are no duplicates, after the
\* last one searched.
ToSearch ==
    { k \in 1..Len(tasks) :
        /\ tasks[k].duplicate_of = NoDup
        /\ \A i \in 1..Len(queries) : queries[i].index < k }

\* PDFDownloader._search_reference builds the query of the next task that
\* is retrieved (a duplicate never is).
SearchReference ==
    /\ text_pc = "tasks"
    /\ ToSearch # {}
    /\ LET k == CHOOSE i \in ToSearch : \A j \in ToSearch : i <= j
       IN /\ queries' = Append(queries,
                               [index |-> k,
                                query |-> build_search_query(tasks[k].reference)])
          /\ text_pc' = IF ToSearch = {k} THEN "searched" ELSE "tasks"
    /\ UNCHANGED <<text_box, references, tasks, textRest>>

NextText ==
    \/ ParseText
    \/ BuildTaskList
    \/ SearchReference

SpecText == InitText /\ [][NextText]_vars

\* ===================================================================
\* The DOI downloaders: main.py and bibliography_downloader.py
\* ===================================================================
\* The file the browser saves for the n-th item, and its name while the
\* browser still writes it.
DoiFile(n) == "doi" \o ToString(n) \o ".pdf"
DoiPartial(n) == DoiFile(n) \o ".crdownload"

\* f.suffix in {".crdownload", ".part"}
IsPartial(name) == \E n \in 1..(MaxDois + 1) : name = DoiPartial(n)

doiRest == <<orchVars, obsVars, detVars, textVars>>

\* A run starts: the browser was built and the first item is next. The
\* folder is empty or holds the file of an earlier run.
DoiInit ==
    /\ doi_prog \in {"main", "bib"}
    /\ dois \in 1..MaxDois
    /\ doi_index = 1
    /\ doi_pc = IF doi_prog = "main" THEN "get" ELSE "snapshot"
    /\ download_dir \in {{}, {"earlier.pdf"}}
    /\ known_files = {}
    /\ direct = FALSE
    /\ started = "none"
    /\ waited = 0
    /\ ready = "unreached"
    /\ located = FALSE
    /\ doi_log = <<>>

\* The item ends: its outcome is logged and the loop takes the next item,
\* or leaves (driver.quit() in main.py).
DoiLog(ok, message, file, ready_wait, went_on) ==
    /\ doi_log' = Append(doi_log,
                         [doi |-> doi_index, ok |-> ok, message |-> message,
                          file |-> file, ready |-> ready_wait,
                          located |-> went_on])
    /\ IF doi_index < dois
       THEN /\ doi_index' = doi_index + 1
            /\ doi_pc' = IF doi_prog = "main" THEN "get" ELSE "snapshot"
       ELSE /\ doi_pc' = "done"
            /\ UNCHANGED doi_index

\* The values an item starts with, for the next item.
DoiReset ==
    /\ direct' = FALSE
    /\ started' = "none"
    /\ waited' = 0

\* The browser writes the file of the download that was started: it
\* appears under the in-progress name or, a small file, at once under its
\* own; the in-progress file gets its final name when it is complete.
BrowserWrites ==
    /\ doi_prog = "main"
    /\ doi_pc # "done"
    /\ started # "none"
    /\ DoiFile(doi_index) \notin download_dir
    /\ \/ /\ DoiPartial(doi_index) \notin download_dir
          /\ \E name \in {DoiPartial(doi_index), DoiFile(doi_index)} :
                download_dir' = download_dir \cup {name}
       \/ /\ DoiPartial(doi_index) \in download_dir
          /\ download_dir' = (download_dir \ {DoiPartial(doi_index)})
                             \cup {DoiFile(doi_index)}
    /\ UNCHANGED <<doi_prog, doi_pc, dois, doi_index, known_files, direct,
                   started, waited, ready, located, doi_log>>
    /\ UNCHANGED doiRest

\* ------------------------------------------------- main.download_pdf
\* except TimeoutException in _download_worker
MainTimedOut == "Timed out waiting for the PDF download."

\* driver.get(normalise_url(doi)): the page loads, or the DOI leads
\* straight to the PDF, which the browser starts to download; or the
\* navigation raises and the worker logs the exception's text.
MainGet ==
    /\ doi_prog = "main"
    /\ doi_pc = "get"
    /\ \/ /\ \E redirected \in BOOLEAN :
               /\ direct' = redirected
               /\ started' = IF redirected THEN "get" ELSE "none"
          /\ ready' = "unreached"
          /\ located' = FALSE
          /\ waited' = 0
          /\ doi_pc' = "ready"
          /\ UNCHANGED <<doi_index, doi_log>>
       \/ /\ ready' = "unreached"
          /\ located' = FALSE
          /\ DoiLog(FALSE, "Message: unknown error: net::ERR_NAME_NOT_RESOLVED",
                    NoPath, "unreached", FALSE)
          /\ DoiReset
    /\ UNCHANGED <<doi_prog, dois, download_dir, known_files>>
    /\ UNCHANGED doiRest

\* WebDriverWait(driver, 30).until(readyState == "complete"): its
\* TimeoutException leaves download_pdf and the worker logs the item.
MainReady ==
    /\ doi_prog = "main"
    /\ doi_pc = "ready"
    /\ \/ /\ ready' = "complete"
          /\ doi_pc' = "find"
          /\ UNCHANGED <<doi_index, doi_log, direct, started, waited>>
       \/ /\ ready' = "timeout"
          /\ DoiLog(FALSE, MainTimedOut, NoPath, "timeout", located)
          /\ DoiReset
    /\ UNCHANGED <<doi_prog, dois, download_dir, known_files, located>>
    /\ UNCHANGED doiRest

\* find_pdf_link: on the PDF itself no element is found and the current
\* URL is returned; on a landing page a link's href is returned, or an
\* element without href is clicked and the browser lands on the PDF, or
\* nothing is found and download_pdf raises DownloadError.
MainFind ==
    /\ doi_prog = "main"
    /\ doi_pc = "find"
    /\ located' = TRUE
    /\ IF direct
       THEN /\ doi_pc' = "known"
            /\ UNCHANGED <<doi_index, doi_log, direct, started, waited>>
       ELSE \/ /\ doi_pc' = "known"
               /\ UNCHANGED <<doi_index, doi_log, direct, started, waited>>
            \/ /\ doi_pc' = "known"
               /\ direct' = TRUE
               /\ started' = "click"
               /\ UNCHANGED <<doi_index, doi_log, waited>>
            \/ /\ DoiLog(FALSE,
                         "Could not locate a PDF link on the landing page.",
                         NoPath, ready, TRUE)
               /\ DoiReset
    /\ UNCHANGED <<doi_prog, dois, download_dir, known_files, ready>>
    /\ UNCHANGED doiRest

\* known_files = set(download_dir.glob("*"))
MainKnownFiles ==
    /\ doi_prog = "main"
    /\ doi_pc = "known"
    /\ known_files' = download_dir
    /\ doi_pc' = "open"
    /\ UNCHANGED <<doi_prog, dois, doi_index, download_dir, direct, started,
                   waited, ready, located, doi_log>>
    /\ UNCHANGED doiRest

\* On the PDF already: pass. Otherwise driver.get(pdf_url), which starts
\* the download.
MainOpen ==
    /\ doi_prog = "main"
    /\ doi_pc = "open"
    /\ started' = IF direct THEN started ELSE "open"
    /\ waited' = 0
    /\ doi_pc' = "wait"
    /\ UNCHANGED <<doi_prog, dois, doi_index, download_dir, known_files,
                   direct, ready, located, doi_log>>
    /\ UNCHANGED doiRest

\* entries - known_files, as wait_for_download lists it.
NewFiles(entries, known) == entries \ known

\* One turn of wait_for_download's loop before the deadline: a new file
\* that is still partial, or no new file, sends it to sleep; otherwise
\* the newest new file is returned and the worker logs it as saved.
MainWaitLook ==
    /\ doi_prog = "main"
    /\ doi_pc = "wait"
    /\ waited < MaxWait
    /\ LET new_files == NewFiles(download_dir, known_files)
           partials == { f \in new_files : IsPartial(f) }
       IN IF partials # {} \/ new_files = {}
          THEN /\ waited' = waited + 1
               /\ UNCHANGED <<doi_pc, doi_index, doi_log, direct, started>>
          ELSE /\ \E f \in new_files :
                    DoiLog(TRUE, "Saved", f, ready, located)
               /\ DoiReset
    /\ UNCHANGED <<doi_prog, dois, download_dir, known_files, ready, located>>
    /\ UNCHANGED doiRest

\* The deadline has passed: wait_for_download raises TimeoutException.
MainWaitTimeout ==
    /\ doi_prog = "main"
    /\ doi_pc = "wait"
    /\ waited >= MaxWait
    /\ DoiLog(FALSE, MainTimedOut, NoPath, ready, located)
    /\ DoiReset
    /\ UNCHANGED <<doi_prog, dois, download_dir, known_files, ready, located>>
    /\ UNCHANGED doiRest

\* ------------------------ bibliography_downloader._download_single
\* snapshot = self._snapshot_downloads()
BibSnapshot ==
    /\ doi_prog = "bib"
    /\ doi_pc = "snapshot"
    /\ known_files' = download_dir
    /\ ready' = "unreached"
    /\ located' = FALSE
    /\ doi_pc' = "get"
    /\ UNCHANGED <<doi_prog, dois, doi_index, download_dir, direct, started,
                   waited, doi_log>>
    /\ UNCHANGED doiRest

\* driver.get(url): the page loads, or it is the PDF itself; or the page
\* load timeout set by start_driver ends it with an exception, which
\* download_all turns into the item's failure.
BibGet ==
    /\ doi_prog = "bib"
    /\ doi_pc = "get"
    /\ \/ /\ \E pdf \in BOOLEAN : direct' = pdf
          /\ doi_pc' = "ready"
          /\ UNCHANGED <<doi_index, doi_log, started, waited>>
       \/ /\ DoiLog(FALSE,
                    "Message: timeout: Timed out receiving message from renderer",
                    NoPath, ready, located)
          /\ DoiReset
    /\ UNCHANGED <<doi_prog, dois, download_dir, known_files, ready, located>>
    /\ UNCHANGED doiRest

\* Variant: the timeout of the ready wait leaves _download_single.
_wait_for_ready_state_Raises(state) ==
    IF state = "complete" THEN "continue" ELSE "raise"

\* _wait_for_ready_state: a TimeoutException of the wait is caught and
\* logged ("Page did not reach ready state, continuing anyway."), so the
\* caller goes on either way.
_wait_for_ready_state(state) == "continue"

\* self._wait_for_ready_state() in _download_single.
BibReady ==
    /\ doi_prog = "bib"
    /\ doi_pc = "ready"
    /\ \E state \in {"complete", "timeout"} :
         /\ ready' = state
         /\ IF _wait_for_ready_state(state) = "continue"
            THEN /\ doi_pc' = "viewer"
                 /\ UNCHANGED <<doi_index, doi_log, direct, started, waited>>
            ELSE /\ DoiLog(FALSE, "Message: ", NoPath, state, located)
                 /\ DoiReset
    /\ UNCHANGED <<doi_prog, dois, download_dir, known_files, located>>
    /\ UNCHANGED doiRest

\* _detect_pdf_viewer: a current URL that ends with .pdf is fetched with
\* requests; the item succeeds when that fetch does.
BibViewer ==
    /\ doi_prog = "bib"
    /\ doi_pc = "viewer"
    /\ \/ /\ direct
          /\ download_dir' = download_dir \cup {DoiFile(doi_index)}
          /\ DoiLog(TRUE, "PDF URL fetched directly.", DoiFile(doi_index),
                    ready, located)
          /\ DoiReset
       \/ /\ doi_pc' = "click"
          /\ UNCHANGED <<doi_index, doi_log, download_dir, direct, started,
                         waited>>
    /\ UNCHANGED <<doi_prog, dois, known_files, ready, located>>
    /\ UNCHANGED doiRest

\* _try_click_pdf_link(snapshot): the candidates are clicked in turn and
\* _wait_for_download waits for a complete file outside the snapshot; the
\* item succeeds when one appears.
BibClick ==
    /\ doi_prog = "bib"
    /\ doi_pc = "click"
    /\ located' = TRUE
    /\ \/ /\ download_dir' = download_dir \cup {DoiFile(doi_index)}
          /\ DoiLog(TRUE, "PDF downloaded via link.", DoiFile(doi_index),
                    ready, TRUE)
          /\ DoiReset
       \/ /\ doi_pc' = "current"
          /\ UNCHANGED <<doi_index, doi_log, download_dir, direct, started,
                         waited>>
    /\ UNCHANGED <<doi_prog, dois, known_files, ready>>
    /\ UNCHANGED doiRest

\* _download_current_url_as_pdf, and the failure that ends the method.
BibCurrent ==
    /\ doi_prog = "bib"
    /\ doi_pc = "current"
    /\ \/ /\ direct
          /\ download_dir' = download_dir \cup {DoiFile(doi_index)}
          /\ DoiLog(TRUE, "Downloaded PDF from current tab.",
                    DoiFile(doi_index), ready, located)
       \/ /\ DoiLog(FALSE, "Could not locate a PDF download link.", NoPath,
                    ready, located)
          /\ UNCHANGED download_dir
    /\ DoiReset
    /\ UNCHANGED <<doi_prog, dois, known_files, ready, located>>
    /\ UNCHANGED doiRest

InitDoi == OrchInit /\ DetIdle /\ TextIdle /\ DoiInit

NextDoi ==
    \/ BrowserWrites
    \/ MainGet
    \/ MainReady
    \/ MainFind
    \/ MainKnownFiles
    \/ MainOpen
    \/ MainWaitLook
    \/ MainWaitTimeout
    \/ BibSnapshot
    \/ BibGet
    \/ BibReady
    \/ BibViewer
    \/ BibClick
    \/ BibCurrent

SpecDoi == InitDoi /\ [][NextDoi]_vars

\* ===================================================================
\* Properties of the orchestrator (Spec)
\* ===================================================================
\* The run has ended after a browser session was created.
RunEnded == pc = "done" /\ downloader # "none"

IsDuplicate(k) == tasks[k].duplicate_of # NoDup

\* C1: a run over N parsed references ends with exactly N results; the
\* result at position i belongs to the i-th parsed reference (its target is
\* that reference's text), and the task list is numbered 1..N in input
\* order, so a duplicate keeps its own slot and shifts no other.
C1_OneResultPerReference ==
    RunEnded =>
        /\ Len(tasks) = Len(references)
        /\ Len(results) = Len(references)
        /\ \A i \in 1..Len(references) :
              /\ tasks[i].index = i
              /\ tasks[i].reference = references[i].text
              /\ results[i].target = references[i].text

\* A finished run of three references whose third is a duplicate of the
\* first with another text, the first downloaded and the second failed.
C1_Witness ==
    /\ RunEnded
    /\ Len(results) = 3
    /\ tasks[3].duplicate_of = 1
    /\ references[3].text # references[1].text
    /\ results[1].success
    /\ ~results[2].success
    /\ results[3].success

\* C2: a duplicate reference ends the run with the same success flag and
\* the same file path as the final result of the reference it duplicates.
\* Stated for the runs in which no attempt raised, the runs that go through
\* all their phases.
C2_DuplicateSharesFinalOutcome ==
    (RunEnded /\ error_message = "") =>
        \A k \in 1..Len(results) :
            IsDuplicate(k) =>
                /\ results[k].success = results[tasks[k].duplicate_of].success
                /\ results[k].destination =
                       results[tasks[k].duplicate_of].destination

\* C4: a failure of one reference's attempt stays on that reference: the
\* run goes on, and every later reference that is no duplicate is attempted
\* itself.
C4_FailureStaysOnItsReference ==
    RunEnded =>
        \A k \in 1..Len(tasks) :
            ~IsDuplicate(k) => attempts[k][1] >= 1

\* The first attempt of reference k was ended by a skip request.
SkippedInPhase1(k) ==
    /\ phase1_results[k] # None
    /\ phase1_results[k].message = "Skipped by user"

\* C6: a skip request ends at most the attempt it was made in (or before):
\* it never ends the attempt of a later reference, because the flag is
\* cleared when the attempt returns.  The skipped attempt is a failure
\* stored on its own reference and queued for the retry phase like any
\* other failure; in a run where nothing raised, the skipped reference is
\* retried and every later reference is attempted.
C6_SkipEndsOnlyCurrentAttempt ==
    /\ ~skip_leaked
    /\ \A k \in 1..Len(phase1_results) :
          SkippedInPhase1(k) =>
              /\ ~phase1_results[k].success
              /\ phase1_results[k].target = tasks[k].reference
              /\ \E n \in 1..Len(retry_candidates) :
                    retry_candidates[n].slot = k
              /\ (RunEnded /\ error_message = "") =>
                    /\ attempts[k][2] = 1
                    /\ \A j \in (k + 1)..Len(tasks) :
                          ~IsDuplicate(j) => attempts[j][1] = 1

\* The first reference was skipped in Phase 1 and downloaded on retry, the
\* second was downloaded at its first attempt.
C6_Witness ==
    /\ RunEnded
    /\ Len(results) >= 2
    /\ SkippedInPhase1(1)
    /\ results[1].success
    /\ ~IsDuplicate(2)
    /\ results[2].message = "Downloaded"

\* C8: every reference that is no duplicate is attempted exactly once in
\* Phase 1 and once more in Phase 2 exactly when its Phase 1 attempt failed;
\* a duplicate is attempted in neither phase.
C8_AutomatedAttemptCounts ==
    RunEnded =>
        \A k \in 1..Len(tasks) :
            IF IsDuplicate(k)
            THEN attempts[k][1] = 0 /\ attempts[k][2] = 0
            ELSE /\ attempts[k][1] = 1
                 /\ phase1_results[k] # None
                 /\ attempts[k][2] = IF phase1_results[k].success THEN 0 ELSE 1

InPhase3 == pc \in {"phase3", "manual", "prompt", "manual_item"}

\* C9: while the run is in Phase 3, a slot is attempted or rewritten only
\* if manual fallback is enabled, the reference is no duplicate and its
\* result after Phase 2 is a failure; every other slot is left as it is.
C9_ManualFallbackScope ==
    [][ InPhase3 =>
          \A k \in 1..Len(final_results) :
              (final_results'[k] # final_results[k] \/ attempts'[k] # attempts[k])
                  => /\ manual_retry_var
                     /\ ~IsDuplicate(k)
                     /\ ~final_results[k].success ]_vars

\* Phase 3 downloaded the second reference by hand and left alone the first,
\* downloaded in Phase 1, and the third, a duplicate of the failed second.
C9_Witness ==
    /\ RunEnded
    /\ Len(results) = 3
    /\ results[1].message = "Downloaded"
    /\ attempts[2][3] = 1
    /\ results[2].success
    /\ tasks[3].duplicate_of = 2
    /\ ~results[3].success
    /\ attempts[3] = <<0, 0, 0>>

\* C10 as the specification words it: of the items manual fallback
\* processes in one run, the first is preceded by the confirmation prompt
\* and no later one is, whatever the user answers.
C10_PromptShownExactlyOnce ==
    Len(prompt_log) >= 1 =>
        /\ prompt_log[1].prompted
        /\ \A n \in 2..Len(prompt_log) : ~prompt_log[n].prompted

\* C10, amended: an item of manual fallback is preceded by the confirmation
\* prompt exactly when no earlier item of the run went ahead, so the first
\* item is always prompted, items keep being prompted while the user
\* answers No, and nothing is prompted after the first Yes.
C10_PromptUntilFirstYes ==
    \A n \in 1..Len(prompt_log) :
        prompt_log[n].prompted <=>
            (\A m \in 1..(n - 1) : ~prompt_log[m].answer)

\* The user declined the first item, was asked again before the second
\* and accepted it; the run then ended.
C10_Witness ==
    /\ RunEnded
    /\ Len(prompt_log) = 2
    /\ prompt_log[1].prompted /\ ~prompt_log[1].answer
    /\ prompt_log[2].prompted /\ prompt_log[2].answer
    /\ manual_prompt_acknowledged

\* C14: every wait of the worker is bounded by a timeout, so every started
\* run reaches its final summary.
C14_EveryRunReachesSummary ==
    (pc = "setup") ~> (pc = "done")

\* A worker thread exists and has not ended.
WorkerRunning == pc \notin {"idle", "done"}

\* The steps at which the worker itself clears the skip flag.
AttemptReturns == pc \in {"download1", "download2", "prompt", "manual_item"}

\* C15: while a worker runs, nothing starts a second one and no step
\* other than the worker's own replaces the run's state: the references
\* stay, the task list is built once, the skip flag is cleared only where
\* an attempt returns, the session changes only where it is created and
\* closed, and the result list is written only by the aggregation.
C15_StartRejectedWhileRunning ==
    [][ WorkerRunning =>
          /\ references' = references
          /\ (pc' = "setup" => pc = "setup")
          /\ (tasks' # tasks => pc = "setup")
          /\ ((skip_event /\ ~skip_event') => AttemptReturns)
          /\ (downloader' # downloader => pc \in {"create", "finally"})
          /\ (results' # results => pc = "aggregate") ]_vars

\* The retry of the second reference is in progress with a skip requested:
\* a start request made now is answered with the dialog only.
C15_Witness ==
    /\ pc = "download2"
    /\ CurrentAttempt = <<2, 2>>
    /\ skip_event
    /\ ThreadAlive

\* C16: a session that cannot be started ends the run without any attempt
\* and without manual fallback, every reference being reported failed with
\* the error's text; and nothing else ends a run early.
C16_OnlySessionStartIsFatal ==
    /\ (pc = "done" /\ downloader = "none") =>
          /\ prompt_log = <<>>
          /\ \A k \in 1..Len(results) :
                /\ attempts[k] = <<0, 0, 0>>
                /\ ~results[k].success
                /\ results[k].message = error_message
    /\ pc = "except" => downloader = "none"

SignatureOf(k) == references[k].signature

\* C22: no retrieval attempt is ever made for a reference marked as a
\* duplicate, in Phase 1, in the retry or in the manual fallback; a
\* reference that was handed to an attempt is the first of the run with
\* its signature.
C22_DuplicatesNeverRetrieved ==
    \A k \in 1..Len(attempts) :
        /\ IsDuplicate(k) => attempts[k] = <<0, 0, 0>>
        /\ attempts[k] # <<0, 0, 0>> =>
              \A j \in 1..(k - 1) : SignatureOf(j) # SignatureOf(k)

\* The run ended; the first reference went through all three phases and
\* its duplicate, a failure since Phase 1, through none.
C22_Witness ==
    /\ RunEnded
    /\ Len(tasks) >= 2
    /\ tasks[2].duplicate_of = 1
    /\ attempts[1] = <<1, 1, 1>>
    /\ attempts[2] = <<0, 0, 0>>
    /\ ~results[2].success

\* No stitch_pdfs of the run met an error of the file system.
NoMergeError(summary) ==
    summary.combine_message
        \in { "", "Install PyPDF2 to enable combined PDF output." }

\* C21: the aggregation run twice on the same final results, with the
\* same destination, gives the same summary twice, with the same path of
\* the merged PDF and the same path of the report.
C21_AggregationIdempotent ==
    (pc = "done" /\ Len(summaries) = 2
     /\ NoMergeError(summaries[1]) /\ NoMergeError(summaries[2])) =>
        summaries[2] = summaries[1]

\* ===================================================================
\* Properties of the completion detectors (SpecDet)
\* ===================================================================
\* C3: the file the automated detector returns had, at the listing that
\* returned it, the size the previous listing saw for it; a file seen for
\* the first time, or one that grew since, is not returned.
C3_ReturnedOnlyWhenStable ==
    (det_mode = "auto" /\ downloaded # NoPath) => seen_stable

\* C5: the file a detector returns, automated or manual, was not in the
\* snapshot taken before the download was triggered, whatever the folder's
\* files did while the detector polled.
C5_NeverReturnsSnapshotFile ==
    downloaded # NoPath => downloaded \notin existing_files

\* A detector returned a file while a PDF of its snapshot was in the folder.
C5_Witness ==
    /\ downloaded # NoPath
    /\ \E old \in existing_files :
          /\ HasPdfSuffix(old)
          /\ ~EndsWithPart(old)
          /\ folder[old] # Absent

\* C7: once the skip flag was set while the automated detector was
\* polling, the polling ends with the result "Skipped by user" and without
\* a file.
C7_SkipWhilePollingEndsSkipped ==
    (det_mode = "auto" /\ skip_in_poll /\ det_pc \notin PollingPcs) =>
        /\ downloaded = NoPath
        /\ det_pc = "returned"
        /\ det_result # None
        /\ ~det_result.success
        /\ det_result.message = "Skipped by user"

\* The call ended inside a gate, and not by a skip.
GateFailed ==
    /\ det_pc = "returned"
    /\ gate # "none"
    /\ det_result.message # "Skipped by user"

VerificationNotCleared ==
    "Failed to open Google Scholar: Message: Verification challenge "
    \o "was not cleared in time"

\* C11: when the wait of a gate runs out with the marker still on the
\* page, at whichever of the three stages, the call returns a failure
\* whose message says that the verification was not cleared.
C11_GateTimeoutNamesVerification ==
    GateFailed =>
        /\ ~det_result.success
        /\ det_result.message = VerificationNotCleared

C13_SkipEndsGateWait ==
    /\ notify_wait <= 1
    /\ (skip_in_gate /\ det_pc \in EndPcs) =>
          /\ det_pc = "returned"
          /\ det_result.message = "Skipped by user"

\* The poll loop of _wait_for_new_file ran to its deadline: the call ended
\* outside any gate with the timer of the loop used up.
PollTimedOut ==
    /\ det_mode = "auto"
    /\ det_pc = "returned"
    /\ gate = "none"
    /\ ~(elapsed < MaxPolls)

\* C17: an attempt whose download was triggered and whose polling reached
\* the timeout without a new qualifying file returns the failure
\* "Download did not complete in time", and nothing is in the destination.
C17_TimeoutFailureMovesNothing ==
    PollTimedOut =>
        /\ det_result = DownloadResult(DetTask.reference, FALSE,
                                       "Download did not complete in time",
                                       NoPath, NoPath)
        /\ downloaded = NoPath
        /\ dest_files = {}

\* The polling timed out on a folder that held only a PDF of the snapshot
\* and an unfinished download.
C17_Witness ==
    /\ PollTimedOut
    /\ "old.pdf" \in existing_files
    /\ folder["old.pdf"] # Absent
    /\ folder["paper.pdf.part"] # Absent
    /\ folder["paper.pdf"] = Absent
    /\ det_result.message = "Download did not complete in time"

\* download has the size of the reported file and finds it empty.
StatFindsEmpty ==
    /\ det_mode = "auto"
    /\ det_pc = "stat"
    /\ det_pc' # "stat"
    /\ folder[downloaded] = 0

EmptyFailure ==
    DownloadResult(DetTask.reference, FALSE, "Downloaded PDF was empty",
                   NoPath, NoPath)

\* C18 as stated: when the reported file has size 0 the attempt deletes
\* it, moves nothing into the destination and returns the failure
\* "Downloaded PDF was empty".
C18_EmptyFileDeleted ==
    [][ StatFindsEmpty =>
          /\ det_result' = EmptyFailure
          /\ dest_files' = dest_files
          /\ folder' = [folder EXCEPT ![downloaded] = Absent] ]_vars

\* C18, amended: when the reported file has size 0 the attempt tries to
\* delete it, which removes the file or, when the deletion fails, leaves
\* it as it is; no other file is touched, nothing is moved into the
\* destination, and the failure "Downloaded PDF was empty" is returned,
\* which is not the failure of the timeout.
C18_EmptyFileDeletionTried ==
    [][ StatFindsEmpty =>
          /\ det_pc' = "returned"
          /\ det_result' = EmptyFailure
          /\ det_result'.message # "Download did not complete in time"
          /\ dest_files' = dest_files
          /\ \/ folder' = [folder EXCEPT ![downloaded] = Absent]
             \/ folder' = folder ]_vars

\* The attempt ended on an empty file that could not be deleted.
C18_Witness ==
    /\ det_mode = "auto"
    /\ det_pc = "returned"
    /\ det_result = EmptyFailure
    /\ downloaded # NoPath
    /\ folder[downloaded] = 0
    /\ dest_files = {}

\* wait_for_manual_pdf hands a file to _perform_manual_download.
ManualFileReturned ==
    /\ det_pc = "m_scan"
    /\ det_pc' = "m_stat"

\* _perform_manual_download has the size of the manual file and finds it
\* empty.
ManualStatFindsEmpty ==
    /\ det_pc = "m_stat"
    /\ det_pc' # "m_stat"
    /\ folder[downloaded] = 0

ManualEmptyFailure ==
    DownloadResult(DetTask.reference, FALSE,
                   _append_manual_note(DetPrevious,
                                       "Manual download appeared empty"),
                   NoPath, NoPath)

\* What holds of every step that moves a manual file: the destination
\* changes only in the move that follows a stat of a size above 0, and the
\* item then succeeds as "Downloaded manually".
ManualMoveChecked ==
    /\ (det_pc = "m_stat" /\ det_pc' = "m_move") => folder[downloaded] > 0
    /\ dest_files' # dest_files =>
          /\ det_pc = "m_move"
          /\ det_result'.success
          /\ det_result'.message = "Downloaded manually"
          /\ det_result'.destination \in dest_files'
    /\ (det_result' # det_result /\ det_result'.success) =>
          dest_files' # dest_files

\* C30 as stated: wait_for_manual_pdf returns a PDF only when the poll
\* before saw it with the same size; a manual file of size 0 is deleted
\* and reported as a failure; only a file found stable and not empty is
\* moved and reported as "Downloaded manually".
C30_ManualStableNonEmptyOnly ==
    [][ det_mode = "manual" =>
          /\ ManualFileReturned => seen_stable'
          /\ ManualStatFindsEmpty =>
                /\ det_result' = ManualEmptyFailure
                /\ dest_files' = dest_files
                /\ folder' = [folder EXCEPT ![downloaded] = Absent]
          /\ ManualMoveChecked ]_vars

\* C30, amended: wait_for_manual_pdf returns a PDF only when its size is
\* the size found when the file was last seen, at an earlier poll of the
\* call; for a manual file of size 0 a deletion is tried, which removes
\* the file or leaves it as it is, and the failure "Manual download
\* appeared empty" is reported; only a file so returned and then found
\* not empty is moved and reported as "Downloaded manually".
C30_ManualStableDeletionTried ==
    [][ det_mode = "manual" =>
          /\ ManualFileReturned =>
                /\ size_tracker[downloaded'] # Absent
                /\ size_tracker[downloaded'] = folder[downloaded']
          /\ ManualStatFindsEmpty =>
                /\ det_pc' = "returned"
                /\ det_result' = ManualEmptyFailure
                /\ dest_files' = dest_files
                /\ \/ folder' = [folder EXCEPT ![downloaded] = Absent]
                   \/ folder' = folder
          /\ ManualMoveChecked ]_vars

\* A manual download that kept its size over two polls was moved into the
\* destination.
C30_Witness ==
    /\ det_mode = "manual"
    /\ det_pc = "returned"
    /\ det_result.success
    /\ det_result.message = "Downloaded manually"
    /\ downloaded = "paper.pdf"
    /\ seen_stable
    /\ size_tracker["paper.pdf"] > 0
    /\ dest_files = {det_result.destination}

\* ===================================================================
\* Properties of the text of a bibliography (SpecText)
\* ===================================================================
\* The text box was read.
TextRead == text_pc # "input"

\* The records extract_references returned for the text box.
RecordTexts == [i \in 1..Len(references) |-> references[i].text]

\* The lines of the text box, each without the whitespace around it.
StrippedLines ==
    Let(splitlines(text_box), LAMBDA lines :
        [i \in 1..Len(lines) |-> strip(lines[i])])

\* Whether a line begins with a numbering token.
IsNumbered(line) ==
    \/ REFERENCE_LEAD_PATTERN(line) # NoMatch
    \/ LOOSE_REFERENCE_LEAD_PATTERN(line) # NoMatch

\* A line without the one numbering token it begins with.
WithoutNumberingToken(line) ==
    IF REFERENCE_LEAD_PATTERN(line) # NoMatch
    THEN strip(SubLead(line, REFERENCE_LEAD_PATTERN(line)))
    ELSE strip(SubLead(line, LOOSE_REFERENCE_LEAD_PATTERN(line)))

\* The texts of a sequence that are not empty.
NonEmpty(texts) == SelectSeq(texts, LAMBDA t : t # "")

\* C26: for a text box that is not blank, extract_references returns at
\* least one record, and the records put one after the other are the
\* non-blank lines of the text in their order, every line once, a line
\* that begins with a numbering token without that token.
C26_EveryLineKeptOnce ==
    TextRead =>
        /\ strip(text_box) # "" => Len(references) >= 1
        /\ Join(NonEmpty(RecordTexts), " ")
             = Join(NonEmpty([i \in 1..Len(StrippedLines) |->
                                WithoutNumberingToken(StrippedLines[i])]),
                    " ")

\* The lines a record starts at: a line that is not blank and is the
\* first one, or follows a blank line, or begins with a numbering token.
RecordStarts ==
    { i \in 1..Len(StrippedLines) :
        /\ StrippedLines[i] # ""
        /\ \/ i = 1
           \/ StrippedLines[i - 1] = ""
           \/ IsNumbered(StrippedLines[i]) }

\* The last line of the record that starts at line i: the line before the
\* next blank line, the next numbered line or the end of the text.
RecordEnd(i) ==
    Greatest({ e \in i..Len(StrippedLines) :
                 \A j \in (i + 1)..e :
                     /\ StrippedLines[j] # ""
                     /\ ~IsNumbered(StrippedLines[j]) })

\* The record of the lines i to RecordEnd(i).
RecordFrom(i) ==
    Join([j \in 1..(RecordEnd(i) - i + 1) |->
            IF j = 1 /\ IsNumbered(StrippedLines[i])
            THEN _strip_reference_lead(StrippedLines[i])
            ELSE StrippedLines[i + j - 1]],
         " ")

\* The n-th least element of a set of indices.
NthOf(indices, n) ==
    CHOOSE i \in indices : Cardinality({ j \in indices : j <= i }) = n

\* C27: the records of extract_references are, in the order of the text,
\* the runs of lines that start at the first line, after a blank line or
\* at a numbered line, and end before the next blank line, before the next
\* numbered line or with the text: a numbered line closes the open record,
\* and the record open at the end of the text is emitted.
C27_RecordBoundaries ==
    TextRead =>
        RecordTexts = [n \in 1..Cardinality(RecordStarts) |->
                         RecordFrom(NthOf(RecordStarts, n))]

\* A text of two lines and no blank line, the second numbered: two
\* records, the second one open when the text ends.
C27_Witness ==
    /\ text_pc = "parsed"
    /\ text_box = "Smith J. Title One. 2020. doi:10.1000/abc"
                  \o "\n" \o "2. J. Smith (2020) DOI 10.1000/ABC."
    /\ RecordTexts = << "Smith J. Title One. 2020. doi:10.1000/abc",
                        "J. Smith (2020) DOI 10.1000/ABC." >>

\* What the signature of a record is taken from: its DOI, else its URL,
\* else its derived title when that is not blank, else its full text.
SignatureKind(record) ==
    IF record.doi # "" THEN "doi"
    ELSE IF record.url # "" THEN "url"
    ELSE IF strip(CollapseSpaces(record.title)) # "" THEN "title"
    ELSE "text"

\* Whether text begins with prefix, and what follows the prefix.
HasPrefix(s, prefix) == StartsAt(s, 1, prefix)
AfterPrefix(s, prefix) == SubSeq(s, Len(prefix) + 1, Len(s))

TasksBuilt == text_pc \in {"tasks", "searched"}

\* The DOIs the lines of the pool cite.
CitedDois == { "10.1000/abc" }

\* What may follow a DOI in a text that cites it: nothing, whitespace, or
\* a closing bracket, a quote or a punctuation mark.
EndsDoi(c) ==
    \/ c = ""
    \/ IsSpace(c)
    \/ c \in { ".", ",", ";", ":", ")", "]", "}", ">", "\"", "'" }

\* Whether a text contains the DOI, in whatever case, as a whole.
ContainsDoi(s, doi) ==
    Let(lower(s), LAMBDA folded :
        \E k \in 1..Len(folded) :
            /\ StartsAt(folded, k, lower(doi))
            /\ ~IsWord(At(folded, k - 1))
            /\ EndsDoi(At(folded, k + Len(doi))))

\* C24: two records of a bibliography that contain the same DOI have the
\* same signature, whatever surrounds the DOI, and the later one is marked
\* as a duplicate.
C24_SameDoiSameSignature ==
    TasksBuilt =>
        \A i, j \in 1..Len(references) : \A doi \in CitedDois :
            /\ i < j
            /\ ContainsDoi(references[i].text, doi)
            /\ ContainsDoi(references[j].text, doi)
            => /\ references[i].signature = references[j].signature
               /\ tasks[j].duplicate_of # NoDup

\* Every task that is retrieved has its query.
Searched == text_pc = "searched"

\* The bibliography of one numbered entry that ends with a doi.org link
\* whose registrant code has one digit.
ScenarioA ==
    "[1] Smith J. Title One. J Sci. 2020;12:1-5. https://doi.org/10.1/abc"

\* C25 as stated: the bibliography of Scenario A gives one record, with
\* the signature doi:10.1/abc and the query https://doi.org/10.1/abc.
C25_ScenarioADoiSignature ==
    Searched /\ text_box = ScenarioA =>
        /\ Len(references) = 1
        /\ references[1].signature = "doi:10.1/abc"
        /\ queries = << [index |-> 1, query |-> "https://doi.org/10.1/abc"] >>

\* C25: the bibliography of Scenario A gives one record, without the
\* numbering token; DOI_PATTERN finds no DOI in it, so its signature is
\* the URL signature url:https://doi.org/10.1/abc, and its query is the
\* URL https://doi.org/10.1/abc.
C25_ScenarioAUrlSignature ==
    Searched /\ text_box = ScenarioA =>
        /\ Len(references) = 1
        /\ references[1].text = AfterPrefix(ScenarioA, "[1] ")
        /\ references[1].doi = ""
        /\ references[1].signature = "url:https://doi.org/10.1/abc"
        /\ queries = << [index |-> 1, query |-> "https://doi.org/10.1/abc"] >>

\* The bibliography of Scenario A was parsed and its one task searched.
C25_Witness ==
    /\ Searched
    /\ text_box = ScenarioA
    /\ Len(tasks) = 1
    /\ Len(queries) = 1

\* The record a query was built for.
QueriedRecord(q) == references[q.index]

\* C28: the query build_search_query returns for a reference that is not
\* empty without its numbering token is not empty, whether it is a DOI, a
\* URL or free text.
C28_QueryNeverEmpty ==
    \A n \in 1..Len(queries) :
        _strip_reference_lead(QueriedRecord(queries[n]).text) # ""
            => queries[n].query # ""

\* Two queries were built: a DOI, and then free text for a record that
\* holds neither a DOI nor a URL.
C28_Witness ==
    /\ Searched
    /\ Len(queries) = 2
    /\ QueriedRecord(queries[1]).doi # ""
    /\ queries[1].query = "10.1000/abc"
    /\ QueriedRecord(queries[2]).doi = ""
    /\ QueriedRecord(queries[2]).url = ""
    /\ queries[2].query # ""

AutomatedReasons ==
    DownloadFailures \cup {"Skipped by user", "[Errno 13] Permission denied"}

\* The notes a manual-fallback item can fail with.
ManualNotes ==
    ManualFailures
    \cup { "Manual fallback skipped by user",
           "Could not open browser (no browser)",
           "Skipped during manual fallback" }

\* The reason of the Phase 1 attempt of slot k: the message of the failure
\* it returned, or the text of the exception that left it.
Phase1Reason(k) ==
    IF phase1_results[k] # None THEN phase1_results[k].message
    ELSE error_message

\* The messages that hold the reasons of the automated phases slot k went
\* through, in phase order.
AutomatedChains(k) ==
    IF attempts[k][2] = 1
    THEN { "initial attempt: " \o Phase1Reason(k)
           \o "; retry attempt: " \o reason : reason \in AutomatedReasons }
    ELSE { Phase1Reason(k) }

\* The same followed by the note of manual fallback, when slot k went
\* through it or it could not start.
ReasonChains(k) ==
    IF attempts[k][3] = 1
    THEN { chain \o "; " \o note :
             chain \in AutomatedChains(k), note \in ManualNotes }
    ELSE AutomatedChains(k)
         \cup { chain \o "; Manual fallback unavailable "
                      \o "([Errno 13] Permission denied)" :
                  chain \in AutomatedChains(k) }

\* C31: when the run has ended, the message of a reference that is no
\* duplicate, was attempted and ended as a failure holds the reason of
\* every phase it went through, in phase order: the Phase 1 reason, the
\* Phase 2 reason when it was retried, and the manual-fallback note when
\* manual fallback took it up.
C31_ReasonChainComplete ==
    RunEnded =>
        \A k \in 1..Len(results) :
            /\ ~IsDuplicate(k)
            /\ attempts[k][1] = 1
            /\ ~results[k].success
            => results[k].message \in ReasonChains(k)

\* The message Phase 1 stores for a duplicate whose original has no result.
OriginalUnavailable(k) ==
    "Duplicate of entry " \o ToString(tasks[k].duplicate_of)
      \o "; original result unavailable"

\* C40: the duplicate_of of a duplicate is the index of the first task
\* with its signature: it is smaller than the duplicate's own index and
\* names a task that is no duplicate.  When Phase 1 reaches the duplicate
\* the slot of the original is filled, so no slot ever holds the
\* "original result unavailable" message.
C40_DuplicateOfFirstCarrier ==
    \A k \in 1..Len(tasks) :
        IsDuplicate(k) =>
            LET d == tasks[k].duplicate_of
            IN /\ d \in 1..(k - 1)
               /\ ~IsDuplicate(d)
               /\ references[d].signature = references[k].signature
               /\ \A j \in 1..(d - 1) :
                     references[j].signature # references[k].signature
               /\ (pc = "phase1" /\ pos = k) => final_results[d] # None
               /\ final_results[k] # None =>
                     final_results[k].message # OriginalUnavailable(k)

\* Phase 1 stands before the third of three references with one
\* signature, the first two texts differing: the third is a duplicate of
\* the first, and so is the second.
C40_Witness ==
    /\ pc = "phase1"
    /\ pos = 3
    /\ Len(tasks) = 3
    /\ tasks[2].duplicate_of = 1
    /\ tasks[3].duplicate_of = 1
    /\ references[1].text # references[2].text
    /\ final_results[1] # None
    /\ final_results[2] # None

\* Slot k holds the successful result of a reference that is no duplicate.
OwnSuccess(slots, k) ==
    /\ ~IsDuplicate(k)
    /\ slots[k] # None
    /\ slots[k].success

\* A step of an attempt that stores a successful result moved the file to
\* a path that named no file of the destination folder.
MoveToFreshPath ==
    pc \in {"download1", "download2", "manual_item"} =>
        \A k \in 1..Len(final_results) :
            (OwnSuccess(final_results', k) /\ final_results'[k] # final_results[k])
            => /\ final_results'[k].destination \notin dest_files
               /\ final_results'[k].destination \in dest_files'

\* C38: a successful download, automated or manual, is moved to a path
\* that named no file of the destination folder before the move, and two
\* references that are no duplicates and both succeeded never hold the
\* same destination path, shared file name or not.
C38_NoOverwriteNoSharedDestination ==
    /\ [](\A k, j \in 1..Len(final_results) :
            (k # j /\ OwnSuccess(final_results, k) /\ OwnSuccess(final_results, j))
            => final_results[k].destination # final_results[j].destination)
    /\ [][MoveToFreshPath]_vars

\* Two references that are no duplicates of each other were both saved
\* under the title of the result page, the first in Phase 1 and the second
\* by manual fallback: the second got the name with the counter.
C38_Witness ==
    /\ RunEnded
    /\ Len(results) >= 2
    /\ ~IsDuplicate(2)
    /\ results[1].message = "Downloaded"
    /\ results[1].destination = "Found_Title.pdf"
    /\ results[2].message = "Downloaded manually"
    /\ results[2].destination = "Found_Title_1.pdf"

\* Slot k is on the pending list of manual fallback.
IsPending(k) == \E n \in 1..Len(pending) : pending[n].slot = k

\* C37: a reference whose Phase 1 attempt ended as "Skipped by user" goes
\* the way of every Phase 1 failure: it is queued for the retry with that
\* result, it has been attempted again when the retry loop is through,
\* and when manual fallback runs it is on the pending list unless the
\* retry succeeded, and has been taken up when the manual loop is through.
C37_SkippedGoesTheWayOfFailures ==
    \A k \in 1..Len(phase1_results) :
        SkippedInPhase1(k) =>
            /\ \E n \in 1..Len(retry_candidates) :
                  /\ retry_candidates[n].slot = k
                  /\ retry_candidates[n].first_result = phase1_results[k]
            /\ pc \in {"phase3", "manual", "prompt", "manual_item"} =>
                  attempts[k][2] = 1
            /\ pc \in {"manual", "prompt", "manual_item"} =>
                  (IsPending(k) \/ final_results[k].success)
            /\ (pc = "manual" /\ pos > Len(pending) /\ IsPending(k)) =>
                  attempts[k][3] = 1

\* The first reference was skipped in Phase 1, failed again on retry and
\* was saved by manual fallback.
C37_Witness ==
    /\ RunEnded
    /\ SkippedInPhase1(1)
    /\ attempts[1] = <<1, 1, 1>>
    /\ prompt_log # <<>>
    /\ results[1].message = "Downloaded manually"

\* The step is the return of an attempt that was ended by the skip flag.
SkippedReturn ==
    \/ /\ pc = "download1" /\ pc' = "phase1"
       /\ final_results'[tasks[pos].index].message = "Skipped by user"
    \/ /\ pc = "download2" /\ pc' = "phase2"
       /\ final_results'[retry_candidates[pos].slot].message =
             _merge_failure_messages(retry_candidates[pos].first_result.message,
                                     "Skipped by user")
    \/ /\ pc = "manual_item" /\ pc' = "manual"
       /\ final_results'[pending[pos].slot].message =
             _append_manual_note(pending[pos].previous.message,
                                 "Skipped during manual fallback")

\* C36: a skip requested while the worker is inside no attempt (it records
\* a duplicate, or stands between two attempts) ends no attempt: whenever
\* an attempt returns as skipped, a request was made while it ran.
C36_SkipOutsideAttemptEndsNone ==
    [][SkippedReturn => skip_at # NoAttempt]_vars

\* The worker is past the finally block of _run_downloads.
PastFinally == pc \in {"aggregate", "done"}

\* C39: on every way out of the three phases the browser session started
\* for the run is closed before the results are aggregated: no run is
\* past its finally block with a session still open.
C39_SessionClosedBeforeAggregation ==
    PastFinally => downloader \in {"none", "closed"}

\* ===================================================================
\* Properties of a call that starts on an unfinished download
\* (SpecLeftover)
\* ===================================================================
\* The file the call returned is the download that was unfinished when
\* the call started, under its final name.
ReturnedLeftover ==
    /\ leftover = "pdf"
    /\ downloaded = LeftoverName(leftover)

\* C34: the file download moves into the destination was created by the
\* download this call triggered: the download an earlier call left
\* unfinished, finishing late, is never the file of this call's success.
C34_MovedFileIsOwnDownload ==
    (det_mode = "auto" /\ det_result # None /\ det_result.success)
    => ~ReturnedLeftover

\* C35: in manual fallback, the PDF whose saving began for an earlier
\* pending item and ended only after that item's wait is never returned
\* as the file of a later item.
C35_ManualFileIsOwnItem ==
    (det_mode = "manual" /\ det_result # None /\ det_result.success)
    => ~ReturnedLeftover

\* ===================================================================
\* Properties of the DOI downloaders (SpecDoi)
\* ===================================================================
\* The items whose ready wait ran into its timeout.
ReadyTimeouts == { n \in 1..Len(doi_log) : doi_log[n].ready = "timeout" }

\* The items are logged in input order, and all of them when the run is
\* over: an item's failure never ends the loop.
LoopGoesOn ==
    /\ \A n \in 1..Len(doi_log) : doi_log[n].doi = n
    /\ doi_pc = "done" => Len(doi_log) = dois

BibOutcomes ==
    { "PDF URL fetched directly.", "PDF downloaded via link.",
      "Downloaded PDF from current tab.",
      "Could not locate a PDF download link." }

EarlyDownloadComplete ==
    /\ doi_prog = "main"
    /\ started \in {"get", "click"}
    /\ DoiFile(doi_index) \in download_dir

\* C33: in main.download_pdf, when the navigation to the DOI or the click
\* of find_pdf_link started the download, every look wait_for_download
\* takes at the folder once the file is complete returns that file,
\* whenever the file was written.
C33_EarlyDownloadIsReturned ==
    [][(doi_pc = "wait" /\ waited < MaxWait /\ EarlyDownloadComplete)
       => /\ Len(doi_log') = Len(doi_log) + 1
          /\ doi_log'[Len(doi_log')].ok
          /\ doi_log'[Len(doi_log')].file = DoiFile(doi_index)]_vars

====
